---- MODULE Spec2Model ----
(***************************************************************************)
(* Custom File Order: the rule store (ConfigManager) and the ordering      *)
(* engine (CustomFileOrderProvider.applyCustomOrder).                      *)
(*                                                                         *)
(* Strings are TLA+ strings; Len, SubSeq and \o act on them character by   *)
(* character, so paths, names and tokens are compared as the code compares *)
(* them.                                                                   *)
(***************************************************************************)
EXTENDS Integers, Sequences, FiniteSets, TLC

VARIABLES
    persisted,            \* the 'rules' value stored in the workspace settings (key order = insertion order)
    config,               \* ConfigManager.configuration: the snapshot of 'rules' that getOrderRules() reads
    defaultFoldersFirst,  \* the 'defaultFoldersFirst' setting
    op,                   \* the last handler that ran, with its arguments
    ret,                  \* what the last getOrderForFolder call returned
    listing,              \* the last applyCustomOrder call: its input entries and what it computed
    match                 \* the last test of one entry name against one token of a custom order

vars == <<persisted, config, defaultFoldersFirst, op, ret, listing, match>>

-----------------------------------------------------------------------------
(* Bounds of the model. *)

MaxRules == 2        \* keys a RuleSet may hold
MaxEntries == 3      \* entries of a listed directory
MaxTokens == 2       \* tokens of a custom order given to the ordering engine
MaxOrderLen == 2     \* tokens an order may grow to by restore and create
MaxRestoreLen == 3   \* tokens of the stored order restoreItemToDefault is checked on
MaxNameLen == 3      \* characters of an entry name tested against a token
MaxTokenLen == 3     \* characters of a token an entry name is tested against

-----------------------------------------------------------------------------
(* String helpers: String.prototype methods the code uses. *)

Char(s, i) == SubSeq(s, i, i)

RECURSIVE includesChar(_, _)
includesChar(s, c) ==
    IF Len(s) = 0 THEN FALSE
    ELSE IF Char(s, 1) = c THEN TRUE
    ELSE includesChar(SubSeq(s, 2, Len(s)), c)

endsWith(s, suffix) ==
    /\ Len(suffix) <= Len(s)
    /\ SubSeq(s, Len(s) - Len(suffix) + 1, Len(s)) = suffix

startsWith(s, prefix) ==
    /\ Len(prefix) <= Len(s)
    /\ SubSeq(s, 1, Len(prefix)) = prefix

isSeparator(c) == c = "/" \/ c = "\\"

\* folderPath.split(/[\/\\]/).pop(): the part after the last / or \ .
RECURSIVE lastSegment(_)
lastSegment(s) ==
    IF Len(s) = 0 THEN ""
    ELSE IF isSeparator(Char(s, Len(s))) THEN ""
    ELSE lastSegment(SubSeq(s, 1, Len(s) - 1)) \o Char(s, Len(s))

\* folderPath.replace(/\\/g, '/')
RECURSIVE normalizeSlashes(_)
normalizeSlashes(s) ==
    IF Len(s) = 0 THEN ""
    ELSE (IF Char(s, 1) = "\\" THEN "/" ELSE Char(s, 1))
             \o normalizeSlashes(SubSeq(s, 2, Len(s)))

\* Array.prototype.includes on a sequence
includes(seq, x) == \E i \in 1..Len(seq) : seq[i] = x

\* The position of the one-character string c in s, 0 when it does not occur.
RECURSIVE indexFrom(_, _, _)
indexFrom(s, c, i) ==
    IF i > Len(s) THEN 0
    ELSE IF Char(s, i) = c THEN i
    ELSE indexFrom(s, c, i + 1)

indexOf(s, c) == indexFrom(s, c, 1)

upperCaseLetters == "ABCDEFGHIJKLMNOPQRSTUVWXYZ"
lowerCaseLetters == "abcdefghijklmnopqrstuvwxyz"

\* The printable ASCII characters in code-unit order (0x20 .. 0x7E), without
\* the double quote and the grave accent, which no name of the model holds.
asciiOrder ==
    " !#$%&'()*+,-./0123456789:;<=>?@" \o upperCaseLetters
        \o "[\\]^_" \o lowerCaseLetters \o "{|}~"

asciiChars == {Char(asciiOrder, i) : i \in 1..Len(asciiOrder)}

\* The rank of each character among the code units.
codeUnitTable == [c \in asciiChars |-> indexOf(asciiOrder, c)]

codeUnit(c) == codeUnitTable[c]

isUpperCase(c) == codeUnit(c) >= codeUnit("A") /\ codeUnit(c) <= codeUnit("Z")

lowerCaseTable ==
    [c \in asciiChars |->
        IF indexOf(upperCaseLetters, c) # 0
        THEN Char(lowerCaseLetters, indexOf(upperCaseLetters, c))
        ELSE c]

lowerChar(c) == lowerCaseTable[c]

RECURSIVE toLowerCase(_)
toLowerCase(s) ==
    IF Len(s) = 0 THEN ""
    ELSE lowerChar(Char(s, 1)) \o toLowerCase(SubSeq(s, 2, Len(s)))

\* a < b on strings: code units compared left to right, a proper prefix is smaller.
RECURSIVE stringLess(_, _)
stringLess(a, b) ==
    IF Len(b) = 0 THEN FALSE
    ELSE IF Len(a) = 0 THEN TRUE
    ELSE IF Char(a, 1) = Char(b, 1)
         THEN stringLess(SubSeq(a, 2, Len(a)), SubSeq(b, 2, Len(b)))
         ELSE codeUnit(Char(a, 1)) < codeUnit(Char(b, 1))

-----------------------------------------------------------------------------
(* The rule store: ConfigManager. *)

\* A stored rule. patterns = <<>> and template = "" stand for an absent property.
Rule(key, order, type, patterns, template) ==
    [key |-> key, order |-> order, type |-> type,
     patterns |-> patterns, template |-> template]

hasKey(rules, key) == \E i \in 1..Len(rules) : rules[i].key = key

ruleAt(rules, key) ==
    rules[CHOOSE i \in 1..Len(rules) : rules[i].key = key]

keySet(rules) == {rules[i].key : i \in 1..Len(rules)}

\* Fault injection: the write keeps only the rule it was given.
putRuleAlone(rules, rule) == <<rule>>

\* rules[key] = rule: an existing property keeps its place, a new one goes last.
putRule(rules, rule) ==
    IF hasKey(rules, rule.key)
    THEN [rules EXCEPT ![CHOOSE i \in 1..Len(rules) : rules[i].key = rule.key] = rule]
    ELSE Append(rules, rule)

\* delete rules[key]
deleteKey(rules, key) ==
    LET keep(r) == r.key # key IN SelectSeq(rules, keep)

canonicalNames ==
    {"src", "components", "pages", "hooks", "utils", "assets",
     "views", "router", "store"}

generateOrderFromPatterns(patterns, folderPath) == <<>>

\* Fault injection: the order handed out whatever the rule's kind.
processOrderVerbatim(rule, folderPath) == rule.order

processOrderWithPatterns(rule, folderPath) ==
    IF rule.type = "pattern" /\ rule.patterns # <<>>
    THEN generateOrderFromPatterns(rule.patterns, folderPath)
    ELSE rule.order

\* Fault injection: the loop keeps going and the last qualifying key wins.
RECURSIVE lastMatchingRule(_, _, _, _)
lastMatchingRule(rules, i, folderName, folderPath) ==
    IF i > Len(rules) THEN 0
    ELSE LET later == lastMatchingRule(rules, i + 1, folderName, folderPath)
         IN  IF later # 0 THEN later
             ELSE IF rules[i].key = folderName \/ endsWith(folderPath, rules[i].key)
                  THEN i
             ELSE 0

RECURSIVE firstMatchingRule(_, _, _, _)
firstMatchingRule(rules, i, folderName, folderPath) ==
    IF i > Len(rules) THEN 0
    ELSE IF rules[i].key = folderName \/ endsWith(folderPath, rules[i].key) THEN i
    ELSE firstMatchingRule(rules, i + 1, folderName, folderPath)

getOrderForFolder(rules, folderPath) ==
    IF hasKey(rules, folderPath)
    THEN processOrderWithPatterns(ruleAt(rules, folderPath), folderPath)
    ELSE LET folderName == lastSegment(folderPath)
             i == firstMatchingRule(rules, 1, folderName, folderPath)
         IN  IF i # 0
             THEN processOrderWithPatterns(rules[i], folderPath)
             ELSE <<>>

\* folderPath.split(/[\/\\]/).pop() || folderPath
folderNameOrPath(folderPath) ==
    IF lastSegment(folderPath) # "" THEN lastSegment(folderPath) ELSE folderPath

\* Fault injection: the key is always the path as given.
keyToUseAlwaysPath(folderPath) == folderPath

keyToUse(folderPath) ==
    IF folderNameOrPath(folderPath) \in canonicalNames
    THEN folderNameOrPath(folderPath)
    ELSE folderPath

\* The RuleSet setOrderForFolder writes, computed from the snapshot it read.
rulesAfterSet(rules, folderPath, order, type, patterns) ==
    putRule(rules, Rule(keyToUse(folderPath), order, type, patterns, ""))

\* Fault injection: a reset that deletes the key of the path only.
rulesAfterResetPathOnly(rules, folderPath) == deleteKey(rules, folderPath)

rulesAfterReset(rules, folderPath) ==
    deleteKey(deleteKey(deleteKey(rules, folderPath),
                        folderNameOrPath(folderPath)),
              normalizeSlashes(folderPath))

\* The key restoreItemToDefault works on; "" stands for null.
restoreKey(rules, folderPath) ==
    IF hasKey(rules, folderPath) THEN folderPath
    ELSE IF hasKey(rules, folderNameOrPath(folderPath)) THEN folderNameOrPath(folderPath)
    ELSE IF hasKey(rules, normalizeSlashes(folderPath)) THEN normalizeSlashes(folderPath)
    ELSE ""

\* Fault injection: the 'Sorting Logic' comparing names without toLowerCase().
placeBeforeCaseSensitive(itemName, compareName, dirs, foldersFirst) ==
    LET itemIsDirectory == itemName \in dirs
        compareIsDirectory == compareName \in dirs
    IN  IF foldersFirst
        THEN IF itemIsDirectory /\ ~compareIsDirectory THEN TRUE
             ELSE IF ~itemIsDirectory /\ compareIsDirectory THEN FALSE
             ELSE stringLess(itemName, compareName)
        ELSE stringLess(itemName, compareName)

\* The 'Sorting Logic' of restoreItemToDefault. dirs holds the names for which
\* fs.statSync(path.join(folderPath, name)).isDirectory() answers true; a stat
\* that fails leaves the name a file.
placeBefore(itemName, compareName, dirs, foldersFirst) ==
    LET itemIsDirectory == itemName \in dirs
        compareIsDirectory == compareName \in dirs
    IN  IF foldersFirst
        THEN IF itemIsDirectory /\ ~compareIsDirectory THEN TRUE
             ELSE IF ~itemIsDirectory /\ compareIsDirectory THEN FALSE
             ELSE stringLess(toLowerCase(itemName), toLowerCase(compareName))
        ELSE stringLess(toLowerCase(itemName), toLowerCase(compareName))

RECURSIVE findInsertIndex(_, _, _, _, _)
findInsertIndex(filteredOrder, i, itemName, dirs, foldersFirst) ==
    IF i > Len(filteredOrder) THEN Len(filteredOrder) + 1
    ELSE IF placeBefore(itemName, filteredOrder[i], dirs, foldersFirst) THEN i
    ELSE findInsertIndex(filteredOrder, i + 1, itemName, dirs, foldersFirst)

\* filteredOrder.splice(insertIndex, 0, itemName), positions counted from 1
spliceIn(seq, index, x) ==
    SubSeq(seq, 1, index - 1) \o <<x>> \o SubSeq(seq, index, Len(seq))

\* Fault injection: a restore that inserts the item without removing it first.
restoredOrderKeepingOld(currentOrder, itemName, dirs, foldersFirst) ==
    spliceIn(currentOrder,
             findInsertIndex(currentOrder, 1, itemName, dirs, foldersFirst),
             itemName)

restoredOrder(currentOrder, itemName, dirs, foldersFirst) ==
    LET keep(name) == name # itemName
        filteredOrder == SelectSeq(currentOrder, keep)
        insertIndex == findInsertIndex(filteredOrder, 1, itemName, dirs, foldersFirst)
    IN  spliceIn(filteredOrder, insertIndex, itemName)

\* Fault injection: a restore that writes the new order as a fresh manual rule.
rulesAfterRestoreAsManual(rules, folderPath, itemName, dirs, foldersFirst) ==
    LET key == restoreKey(rules, folderPath)
        old == ruleAt(rules, key)
    IN  putRule(rules,
                Rule(key, restoredOrder(old.order, itemName, dirs, foldersFirst),
                     "manual", <<>>, ""))

rulesAfterRestore(rules, folderPath, itemName, dirs, foldersFirst) ==
    LET key == restoreKey(rules, folderPath)
        old == ruleAt(rules, key)
    IN  putRule(rules,
                [old EXCEPT !.order = restoredOrder(old.order, itemName, dirs, foldersFirst)])

\* PROJECT_TEMPLATES. A template rule is <<key, order, patterns>>; of a pattern
\* only its text is kept.
TemplateRule(key, order, patterns) ==
    [key |-> key, order |-> order, patterns |-> patterns]

PROJECT_TEMPLATES ==
    << [name |-> "React Project",
        rules |-> << TemplateRule("src",
                         <<"index.js", "App.jsx", "components", "hooks", "pages",
                           "utils", "assets", "styles">>,
                         <<"index.*", "App.*">>),
                     TemplateRule("components",
                         <<"index.js", "*.jsx", "*.js", "*.css", "*.module.css">>,
                         <<"index.*", "*.jsx", "*.js", "*.css">>) >>],
       [name |-> "Vue Project",
        rules |-> << TemplateRule("src",
                         <<"main.js", "App.vue", "components", "views", "router",
                           "store", "assets">>,
                         <<"main.*", "App.*">>) >>],
       [name |-> "Node.js Project",
        rules |-> << TemplateRule(".",
                         <<"package.json", "README.md", "src", "lib", "test", "docs",
                           "node_modules">>,
                         <<"package.json", "README.*", "*.config.*">>),
                     TemplateRule("src",
                         <<"index.js", "app.js", "server.js", "routes", "controllers",
                           "models", "middleware", "utils">>,
                         <<>>) >>] >>

\* The rule applyTemplate stores for one entry of template.rules.
templateRuleToStore(templateRule, templateName) ==
    Rule(templateRule.key, templateRule.order,
         IF templateRule.patterns # <<>> THEN "pattern" ELSE "template",
         templateRule.patterns, templateName)

RECURSIVE mergeTemplateRules(_, _, _, _)
mergeTemplateRules(rules, template, i, n) ==
    IF i > n THEN rules
    ELSE mergeTemplateRules(
             putRule(rules, templateRuleToStore(template.rules[i], template.name)),
             template, i + 1, n)

rulesAfterApplyTemplate(rules, template) ==
    mergeTemplateRules(rules, template, 1, Len(template.rules))

-----------------------------------------------------------------------------
(* The ordering engine: CustomFileOrderProvider.applyCustomOrder. *)

\* pattern.replace(/\./g, '\\.')
RECURSIVE escapeDots(_)
escapeDots(s) ==
    IF Len(s) = 0 THEN ""
    ELSE (IF Char(s, 1) = "." THEN "\\." ELSE Char(s, 1))
             \o escapeDots(SubSeq(s, 2, Len(s)))

\* .replace(/\*/g, '.*')
RECURSIVE starsToDotStar(_)
starsToDotStar(s) ==
    IF Len(s) = 0 THEN ""
    ELSE (IF Char(s, 1) = "*" THEN ".*" ELSE Char(s, 1))
             \o starsToDotStar(SubSeq(s, 2, Len(s)))

\* new RegExp(source) accepts the source: of the regular-expression syntax the
\* sources built here can hold \x escapes, '.', '.*', literal characters and
\* groups; a group that is not closed, or a ')' that closes nothing, is a
\* SyntaxError. depth counts the groups open at position i.
RECURSIVE regexCompiles(_, _, _)
regexCompiles(source, i, depth) ==
    IF i > Len(source) THEN depth = 0
    ELSE IF Char(source, i) = "\\" THEN
             i < Len(source) /\ regexCompiles(source, i + 2, depth)
    ELSE IF Char(source, i) = "(" THEN regexCompiles(source, i + 1, depth + 1)
    ELSE IF Char(source, i) = ")" THEN
             depth > 0 /\ regexCompiles(source, i + 1, depth - 1)
    ELSE regexCompiles(source, i + 1, depth)

\* RegExp.prototype.test for a source that compiles: does source from position i
\* match text from position j up to its end?  '(' and ')' delimit a group and
\* consume nothing, \x matches the character x, '.*' any run of characters,
\* '.' any one character.
RECURSIVE regexMatchesFrom(_, _, _, _)
regexMatchesFrom(source, i, text, j) ==
    IF i > Len(source) THEN j > Len(text)
    ELSE IF Char(source, i) = "(" \/ Char(source, i) = ")" THEN
             regexMatchesFrom(source, i + 1, text, j)
    ELSE IF Char(source, i) = "\\" THEN
             /\ j <= Len(text)
             /\ Char(text, j) = Char(source, i + 1)
             /\ regexMatchesFrom(source, i + 2, text, j + 1)
    ELSE IF Char(source, i) = "." /\ i < Len(source) /\ Char(source, i + 1) = "*" THEN
             \E k \in j..(Len(text) + 1) : regexMatchesFrom(source, i + 2, text, k)
    ELSE IF Char(source, i) = "." THEN
             j <= Len(text) /\ regexMatchesFrom(source, i + 1, text, j + 1)
    ELSE /\ j <= Len(text)
         /\ Char(text, j) = Char(source, i)
         /\ regexMatchesFrom(source, i + 1, text, j + 1)

\* The source matchesPattern hands to new RegExp, between ^ and $.
patternRegex(pattern) == starsToDotStar(escapeDots(pattern))

\* matchesPattern throws when the RegExp constructor rejects the source.
matchesPatternThrows(pattern) == ~regexCompiles(patternRegex(pattern), 1, 0)

matchesPattern(fileName, pattern) ==
    regexMatchesFrom(patternRegex(pattern), 1, fileName, 1)

\* The predicate applyCustomOrder gives to findIndex.
tokenThrows(orderName) ==
    includesChar(orderName, "*") /\ matchesPatternThrows(orderName)

tokenMatches(fileName, orderName) ==
    IF includesChar(orderName, "*")
    THEN matchesPattern(fileName, orderName)
    ELSE fileName = orderName

\* String.prototype.localeCompare under the root collation, on ASCII names
\* and the soft hyphen: first the primary weights decide (punctuation, then
\* digits, then letters, a letter's case ignored; a proper prefix is smaller),
\* then the case of the first letter that differs in case (lower case first).
\* Characters without collation weights take no part in either.

\* The soft hyphen U+00AD (the one character between the quotes): a file name
\* may hold it, and the collation gives it no weight at any level.
softHyphen == "­"

isIgnorable(c) == c = softHyphen

collationOrder ==
    " _-,;:!?.'()[]{}@*/\\&#%^+<=>|~$0123456789" \o lowerCaseLetters

primaryWeightTable == [c \in asciiChars |-> indexOf(collationOrder, lowerChar(c))]

primaryWeight(c) == primaryWeightTable[c]

RECURSIVE comparePrimary(_, _)
comparePrimary(a, b) ==
    IF Len(a) > 0 /\ isIgnorable(Char(a, 1))
    THEN comparePrimary(SubSeq(a, 2, Len(a)), b)
    ELSE IF Len(b) > 0 /\ isIgnorable(Char(b, 1))
    THEN comparePrimary(a, SubSeq(b, 2, Len(b)))
    ELSE IF Len(a) = 0 /\ Len(b) = 0 THEN 0
    ELSE IF Len(a) = 0 THEN -1
    ELSE IF Len(b) = 0 THEN 1
    ELSE IF Char(a, 1) = Char(b, 1)
         THEN comparePrimary(SubSeq(a, 2, Len(a)), SubSeq(b, 2, Len(b)))
    ELSE IF primaryWeight(Char(a, 1)) < primaryWeight(Char(b, 1)) THEN -1
    ELSE IF primaryWeight(Char(a, 1)) > primaryWeight(Char(b, 1)) THEN 1
    ELSE comparePrimary(SubSeq(a, 2, Len(a)), SubSeq(b, 2, Len(b)))

RECURSIVE compareCase(_, _)
compareCase(a, b) ==
    IF Len(a) > 0 /\ isIgnorable(Char(a, 1))
    THEN compareCase(SubSeq(a, 2, Len(a)), b)
    ELSE IF Len(b) > 0 /\ isIgnorable(Char(b, 1))
    THEN compareCase(a, SubSeq(b, 2, Len(b)))
    ELSE IF Len(a) = 0 \/ Len(b) = 0 THEN 0
    ELSE IF Char(a, 1) = Char(b, 1)
         THEN compareCase(SubSeq(a, 2, Len(a)), SubSeq(b, 2, Len(b)))
    ELSE IF isUpperCase(Char(b, 1)) THEN -1
    ELSE 1

localeCompare(a, b) ==
    LET primary == comparePrimary(a, b)
    IN  IF primary # 0 THEN primary ELSE compareCase(a, b)

\* A directory entry turned FileItem: label and fileName are both the entry's name.
Entry(name, isDirectory) == [name |-> name, isDirectory |-> isDirectory]

\* Fault injection: the comparator without its folders-first branch.
compareItemsByNameOnly(a, b, foldersFirst) == localeCompare(a.name, b.name)

\* Fault injection: under folders-first a directory precedes whatever it is
\* compared with.
compareItemsDirectoryWins(a, b, foldersFirst) ==
    IF foldersFirst /\ a.isDirectory THEN -1
    ELSE IF foldersFirst /\ b.isDirectory THEN 1
    ELSE localeCompare(a.name, b.name)

\* The comparator applyCustomOrder sorts with.
compareItems(a, b, foldersFirst) ==
    IF foldersFirst /\ a.isDirectory /\ ~b.isDirectory THEN -1
    ELSE IF foldersFirst /\ ~a.isDirectory /\ b.isDirectory THEN 1
    ELSE localeCompare(a.name, b.name)

\* Array.prototype.sort with that comparator: a stable insertion sort.
RECURSIVE insertSorted(_, _, _)
insertSorted(sorted, item, foldersFirst) ==
    IF Len(sorted) = 0 THEN <<item>>
    ELSE IF compareItems(sorted[Len(sorted)], item, foldersFirst) <= 0
         THEN Append(sorted, item)
    ELSE Append(insertSorted(SubSeq(sorted, 1, Len(sorted) - 1), item, foldersFirst),
                sorted[Len(sorted)])

RECURSIVE sortItems(_, _)
sortItems(items, foldersFirst) ==
    IF Len(items) = 0 THEN <<>>
    ELSE insertSorted(sortItems(SubSeq(items, 1, Len(items) - 1), foldersFirst),
                      items[Len(items)], foldersFirst)

\* Fault injection: the search answering the last entry that matches.
RECURSIVE findLastIndex(_, _, _)
findLastIndex(remainingItems, orderName, i) ==
    IF i > Len(remainingItems) THEN 0
    ELSE LET later == findLastIndex(remainingItems, orderName, i + 1)
         IN  IF later # 0 THEN later
             ELSE IF tokenMatches(remainingItems[i].name, orderName) THEN i
             ELSE 0

\* remainingItems.findIndex(...), positions counted from 1, 0 for -1
RECURSIVE findIndex(_, _, _)
findIndex(remainingItems, orderName, i) ==
    IF i > Len(remainingItems) THEN 0
    ELSE IF tokenMatches(remainingItems[i].name, orderName) THEN i
    ELSE findIndex(remainingItems, orderName, i + 1)

removeAt(seq, i) == SubSeq(seq, 1, i - 1) \o SubSeq(seq, i + 1, Len(seq))

\* customOrder.forEach(...): acc holds orderedItems, remainingItems, for every
\* token already visited the name it took ("" when it found none), and whether
\* the callback threw.
RECURSIVE consumeTokens(_, _, _)
consumeTokens(customOrder, t, acc) ==
    IF t > Len(customOrder) \/ acc.threw THEN acc
    ELSE LET orderName == customOrder[t]
             index == findIndex(acc.remainingItems, orderName, 1)
         IN  IF Len(acc.remainingItems) > 0 /\ tokenThrows(orderName)
             THEN [acc EXCEPT !.threw = TRUE]
             ELSE IF index # 0
             THEN consumeTokens(customOrder, t + 1,
                      [acc EXCEPT !.orderedItems = Append(@, acc.remainingItems[index]),
                                  !.remainingItems = removeAt(@, index),
                                  !.picked = Append(@, acc.remainingItems[index].name)])
             ELSE consumeTokens(customOrder, t + 1,
                      [acc EXCEPT !.picked = Append(@, "")])

\* What applyCustomOrder computes from the entries and the folder's custom order.
orderItems(items, customOrder, foldersFirst) ==
    IF Len(customOrder) = 0
    THEN [orderedItems |-> <<>>, remainingItems |-> <<>>, picked |-> <<>>,
          threw |-> FALSE, sortedRemaining |-> <<>>,
          result |-> sortItems(items, foldersFirst)]
    ELSE LET acc == consumeTokens(customOrder, 1,
                        [orderedItems |-> <<>>, remainingItems |-> items,
                         picked |-> <<>>, threw |-> FALSE])
             sortedRemaining == sortItems(acc.remainingItems, foldersFirst)
         IN  IF acc.threw
             THEN [orderedItems |-> acc.orderedItems,
                   remainingItems |-> acc.remainingItems, picked |-> acc.picked,
                   threw |-> TRUE, sortedRemaining |-> <<>>, result |-> <<>>]
             ELSE [orderedItems |-> acc.orderedItems,
                   remainingItems |-> acc.remainingItems, picked |-> acc.picked,
                   threw |-> FALSE, sortedRemaining |-> sortedRemaining,
                   result |-> acc.orderedItems \o sortedRemaining]

-----------------------------------------------------------------------------
(* The inputs of the rule store's specification. *)

\* Folder paths the tree view hands to the handlers: a folder named src and a
\* folder whose name only ends in src.
TreePaths == {"/a/src", "/a/mysrc"}

\* A relative folder name typed into the configuration panel's
\* 'Folder path (e.g., src, components)' field.
PanelPaths == {"rc"}

FolderPaths == TreePaths \cup PanelPaths

\* Folder paths a reset is asked for: those, and a folder of the tree in the
\* form a Windows host gives its path.
ResetPaths == FolderPaths \cup {"\\a\\mysrc"}

\* Folder paths looked up: those, and a second folder named src.
LookupPaths == FolderPaths \cup {"/b/src"}

ItemNames == {"a"}

SetOrders == {<<"a">>, <<"b", "a">>}

\* Which of the item names the file system reports as directories.
DirChoices == {{}, {"a"}}

\* wrote: the handler's configuration.update went through; failed: the handler
\* rejected to its caller; updates: the calls of configuration.update it made;
\* refreshed: the handler called the provider's refresh; names: the items of a
\* handler that takes several; caught: the handler's catch block ran;
\* reloaded: the configuration watcher refreshed during the handler's awaits.
NoOp ==
    [name |-> "none", folderPath |-> "", order |-> <<>>, itemName |-> "",
     newName |-> "", template |-> "", dirs |-> {}, wrote |-> FALSE,
     failed |-> FALSE, updates |-> 0, refreshed |-> FALSE, names |-> <<>>,
     caught |-> FALSE, reloaded |-> FALSE]

\* access: whether the listed folder exists and can be read ("ok"), does not
\* exist ("missing"), or exists and makes readdirSync throw ("unreadable").
NoListing ==
    [folderPath |-> "", access |-> "ok", items |-> <<>>, filteredEntries |-> <<>>,
     customOrder |-> <<>>, picked |-> <<>>,
     orderedItems |-> <<>>, sortedRemaining |-> <<>>, result |-> <<>>,
     threw |-> FALSE, done |-> FALSE]

NoMatch ==
    [fileName |-> "", orderName |-> "", matched |-> FALSE, threw |-> FALSE,
     done |-> FALSE]

Init ==
    /\ persisted = <<>>
    /\ config = <<>>
    /\ defaultFoldersFirst = TRUE
    /\ op = NoOp
    /\ ret = <<>>
    /\ listing = NoListing
    /\ match = NoMatch

-----------------------------------------------------------------------------
(* The handlers of the rule store. Each reads the snapshot (config) and       *)
(* writes the whole RuleSet to the settings (persisted); only refresh reloads *)
(* the snapshot.                                                              *)

\* ConfigManager.getOrderForFolder, called on its own.
callGetOrderForFolder(folderPath) ==
    /\ ret' = getOrderForFolder(config, folderPath)
    /\ op' = [NoOp EXCEPT !.name = "getOrderForFolder", !.folderPath = folderPath]
    /\ UNCHANGED <<persisted, config, defaultFoldersFirst, listing, match>>

\* ConfigManager.setOrderForFolder as every caller calls it: type 'manual', no patterns.
setOrderForFolder(folderPath, order) ==
    LET rules == rulesAfterSet(config, folderPath, order, "manual", <<>>)
    IN  /\ Len(rules) <= MaxRules
        /\ persisted' = rules
        /\ op' = [NoOp EXCEPT !.name = "setOrderForFolder", !.folderPath = folderPath,
                              !.order = order, !.wrote = TRUE, !.updates = 1]
        /\ ret' = <<>>
        /\ UNCHANGED <<config, defaultFoldersFirst, listing, match>>

resetOrderForFolder(folderPath) ==
    /\ persisted' = rulesAfterReset(config, folderPath)
    /\ op' = [NoOp EXCEPT !.name = "resetOrderForFolder", !.folderPath = folderPath,
                          !.wrote = TRUE, !.updates = 1]
    /\ ret' = <<>>
    /\ UNCHANGED <<config, defaultFoldersFirst, listing, match>>

restoreItemToDefault(folderPath, itemName, dirs) ==
    LET key == restoreKey(config, folderPath)
    IN  /\ IF key # ""
           THEN persisted' = rulesAfterRestore(config, folderPath, itemName, dirs,
                                               defaultFoldersFirst)
           ELSE persisted' = persisted
        /\ op' = [NoOp EXCEPT !.name = "restoreItemToDefault", !.folderPath = folderPath,
                              !.itemName = itemName, !.dirs = dirs,
                              !.wrote = (key # ""),
                              !.updates = IF key # "" THEN 1 ELSE 0]
        /\ ret' = <<>>
        /\ UNCHANGED <<config, defaultFoldersFirst, listing, match>>

applyTemplate(template) ==
    LET rules == rulesAfterApplyTemplate(config, template)
    IN  /\ Len(rules) <= MaxRules
        /\ persisted' = rules
        /\ op' = [NoOp EXCEPT !.name = "applyTemplate", !.template = template.name,
                              !.wrote = TRUE, !.updates = 1]
        /\ ret' = <<>>
        /\ UNCHANGED <<config, defaultFoldersFirst, listing, match>>

\* ConfigManager.refresh: the snapshot is taken again.
refresh ==
    /\ config' = persisted
    /\ op' = [NoOp EXCEPT !.name = "refresh"]
    /\ ret' = <<>>
    /\ UNCHANGED <<persisted, defaultFoldersFirst, listing, match>>

\* updateOrderOnCreate
orderOnCreate(order, name) ==
    LET keep(n) == n # name IN Append(SelectSeq(order, keep), name)

\* updateOrderOnRename
orderOnRename(order, oldName, newName) ==
    [i \in 1..Len(order) |-> IF order[i] = oldName THEN newName ELSE order[i]]

\* Fault injection: the order written back with the deleted name still in it.
orderOnDeleteKeepingName(order, name) == order

\* updateOrderOnDelete
orderOnDelete(order, name) ==
    LET keep(n) == n # name IN SelectSeq(order, keep)

\* createFile / createFolder: the entry is created, the folder's order is
\* rewritten with the name last, and the provider refreshes.
createFile(baseFolder, name) ==
    LET order == getOrderForFolder(config, baseFolder)
        rules == rulesAfterSet(config, baseFolder, orderOnCreate(order, name),
                               "manual", <<>>)
    IN  /\ Len(rules) <= MaxRules
        /\ Len(orderOnCreate(order, name)) <= MaxOrderLen
        /\ persisted' = rules
        /\ config' = rules
        /\ op' = [NoOp EXCEPT !.name = "createFile", !.folderPath = baseFolder,
                              !.itemName = name, !.wrote = TRUE, !.updates = 1,
                              !.refreshed = TRUE]
        /\ ret' = <<>>
        /\ UNCHANGED <<defaultFoldersFirst, listing, match>>

renameItem(parentPath, fileName, newName) ==
    LET order == getOrderForFolder(config, parentPath)
        rules == IF Len(order) > 0
                 THEN rulesAfterSet(config, parentPath,
                                    orderOnRename(order, fileName, newName),
                                    "manual", <<>>)
                 ELSE persisted
    IN  /\ newName # fileName
        /\ Len(rules) <= MaxRules
        /\ persisted' = rules
        /\ config' = rules
        /\ op' = [NoOp EXCEPT !.name = "renameItem", !.folderPath = parentPath,
                              !.itemName = fileName, !.newName = newName,
                              !.wrote = (Len(order) > 0),
                              !.updates = IF Len(order) > 0 THEN 1 ELSE 0,
                              !.refreshed = TRUE]
        /\ ret' = <<>>
        /\ UNCHANGED <<defaultFoldersFirst, listing, match>>

\* deleteItems with one item selected.
deleteItems(parentPath, fileName) ==
    LET order == getOrderForFolder(config, parentPath)
        rules == IF Len(order) > 0
                 THEN rulesAfterSet(config, parentPath, orderOnDelete(order, fileName),
                                    "manual", <<>>)
                 ELSE persisted
    IN  /\ Len(rules) <= MaxRules
        /\ persisted' = rules
        /\ config' = rules
        /\ op' = [NoOp EXCEPT !.name = "deleteItems", !.folderPath = parentPath,
                              !.itemName = fileName, !.wrote = (Len(order) > 0),
                              !.updates = IF Len(order) > 0 THEN 1 ELSE 0,
                              !.refreshed = TRUE]
        /\ ret' = <<>>
        /\ UNCHANGED <<defaultFoldersFirst, listing, match>>

\* The order restoreItemToDefault would write stays within MaxOrderLen, or is
\* a template's order, which is longer from the start, with one name more.
restoreWithinBound(folderPath, itemName) ==
    LET key == restoreKey(config, folderPath)
    IN  key # "" => \/ Len(ruleAt(config, key).order) < MaxOrderLen
                    \/ includes(ruleAt(config, key).order, itemName)
                    \/ ruleAt(config, key).template # ""

Next ==
    \/ \E p \in LookupPaths : callGetOrderForFolder(p)
    \/ \E p \in FolderPaths, o \in SetOrders : setOrderForFolder(p, o)
    \/ \E p \in ResetPaths : resetOrderForFolder(p)
    \/ \E p \in TreePaths, n \in ItemNames, d \in DirChoices :
           /\ restoreWithinBound(p, n)
           /\ restoreItemToDefault(p, n, d)
    \/ \E t \in 1..Len(PROJECT_TEMPLATES) : applyTemplate(PROJECT_TEMPLATES[t])
    \/ refresh
    \/ \E p \in TreePaths, n \in ItemNames : createFile(p, n)
    \/ \E p \in TreePaths : renameItem(p, "a", "b")
    \/ \E p \in TreePaths, n \in ItemNames : deleteItems(p, n)

Spec == Init /\ [][Next]_vars

-----------------------------------------------------------------------------
(* The rule store when the settings reject a write: configuration.update      *)
(* rejects, the await throws, and the handler, which has no catch and no      *)
(* loop, rejects to its caller.                                               *)

\* Fault injection: the rules object the handler changed is the snapshot's own.
snapshotSharingChanges(rules, attempted) == attempted

\* The snapshot after a rejected write. The handler changed a copy of the
\* rules (JSON.parse(JSON.stringify(...)), or the copy the host makes on the
\* first write to the object configuration.get handed out), so the snapshot
\* holds what it held.
snapshotAfterRejectedWrite(rules, attempted) == rules

rejectedWrite(name, folderPath, attempted) ==
    /\ persisted' = persisted
    /\ config' = snapshotAfterRejectedWrite(config, attempted)
    /\ op' = [NoOp EXCEPT !.name = name, !.folderPath = folderPath,
                          !.failed = TRUE, !.updates = 1]
    /\ ret' = <<>>
    /\ UNCHANGED <<defaultFoldersFirst, listing, match>>

setOrderForFolderRejected(folderPath, order) ==
    rejectedWrite("setOrderForFolder", folderPath,
                  rulesAfterSet(config, folderPath, order, "manual", <<>>))

resetOrderForFolderRejected(folderPath) ==
    rejectedWrite("resetOrderForFolder", folderPath,
                  rulesAfterReset(config, folderPath))

restoreItemToDefaultRejected(folderPath, itemName, dirs) ==
    /\ restoreKey(config, folderPath) # ""
    /\ rejectedWrite("restoreItemToDefault", folderPath,
                     rulesAfterRestore(config, folderPath, itemName, dirs,
                                       defaultFoldersFirst))

applyTemplateRejected(template) ==
    rejectedWrite("applyTemplate", "", rulesAfterApplyTemplate(config, template))

NextFailure ==
    \/ \E p \in LookupPaths : callGetOrderForFolder(p)
    \/ \E p \in FolderPaths, o \in SetOrders : setOrderForFolder(p, o)
    \/ \E p \in FolderPaths, o \in SetOrders : setOrderForFolderRejected(p, o)
    \/ \E p \in ResetPaths : resetOrderForFolder(p)
    \/ \E p \in ResetPaths : resetOrderForFolderRejected(p)
    \/ \E p \in TreePaths, n \in ItemNames, d \in DirChoices :
           /\ restoreWithinBound(p, n)
           /\ restoreItemToDefault(p, n, d)
    \/ \E p \in TreePaths, n \in ItemNames, d \in DirChoices :
           restoreItemToDefaultRejected(p, n, d)
    \/ \E t \in 1..Len(PROJECT_TEMPLATES) : applyTemplate(PROJECT_TEMPLATES[t])
    \/ \E t \in 1..Len(PROJECT_TEMPLATES) : applyTemplateRejected(PROJECT_TEMPLATES[t])
    \/ refresh

SpecFailure == Init /\ [][NextFailure]_vars

-----------------------------------------------------------------------------
(* restoreItemToDefault on its own: one stored rule with any order over three *)
(* names, any answer of the file system, either setting of folders-first.     *)

RestoreItems == {"a", "B", "z.txt"}

RestoreOrders == UNION {[1..n -> RestoreItems] : n \in 0..MaxRestoreLen}

\* "/a/src" resolves the stored key, "/a/mysrc" resolves none.
RestoreFolders == {"/a/src", "/a/mysrc"}

InitRestore ==
    /\ \E o \in RestoreOrders : persisted = <<Rule("src", o, "manual", <<>>, "")>>
    /\ config = persisted
    /\ defaultFoldersFirst \in BOOLEAN
    /\ op = NoOp
    /\ ret = <<>>
    /\ listing = NoListing
    /\ match = NoMatch

NextRestore ==
    \E p \in RestoreFolders, n \in RestoreItems, d \in SUBSET RestoreItems :
        /\ op.name = "none"
        /\ restoreItemToDefault(p, n, d)

SpecRestore == InitRestore /\ [][NextRestore]_vars

-----------------------------------------------------------------------------
(* applyCustomOrder on its own: any listing of up to MaxEntries entries, any  *)
(* custom order of up to MaxTokens tokens stored for the listed folder.       *)

ListedFolder == "/a/lib"

EntryNames == {"a", "A", "A.jsx", "b.jsx"}

\* Exact names, a wildcard, and a wildcard the RegExp constructor rejects.
Tokens == {"a", "A.jsx", "*.jsx", "*("}

Entries == {Entry(n, d) : n \in EntryNames, d \in BOOLEAN}

\* readdirSync answers in any order; the names of one directory differ.
EntryLists ==
    {s \in UNION {[1..n -> Entries] : n \in 0..MaxEntries} :
        \A i, j \in 1..Len(s) : i # j => s[i].name # s[j].name}

TokenOrders == UNION {[1..n -> Tokens] : n \in 0..MaxTokens}

InitOrder ==
    /\ \E o \in TokenOrders :
           persisted = IF o = <<>> THEN <<>>
                       ELSE <<Rule(ListedFolder, o, "manual", <<>>, "")>>
    /\ config = persisted
    /\ defaultFoldersFirst \in BOOLEAN
    /\ op = NoOp
    /\ ret = <<>>
    /\ \E items \in EntryLists :
           listing = [NoListing EXCEPT !.folderPath = ListedFolder, !.items = items]
    /\ match = NoMatch

applyCustomOrder ==
    LET customOrder == getOrderForFolder(config, listing.folderPath)
        r == orderItems(listing.items, customOrder, defaultFoldersFirst)
    IN  /\ ~listing.done
        /\ listing' = [listing EXCEPT !.customOrder = customOrder,
                                      !.picked = r.picked,
                                      !.orderedItems = r.orderedItems,
                                      !.sortedRemaining = r.sortedRemaining,
                                      !.result = r.result,
                                      !.threw = r.threw,
                                      !.done = TRUE]
        /\ UNCHANGED <<persisted, config, defaultFoldersFirst, op, ret, match>>

NextOrder == applyCustomOrder

SpecOrder == InitOrder /\ [][NextOrder]_vars

-----------------------------------------------------------------------------
(* The default sort on its own: a folder without custom order holding any of  *)
(* a few entries whose names differ in case, in length, or in a character the *)
(* collation ignores.                                                          *)

ComparedNames == {"a", "A", "a" \o softHyphen, "ab", "b"}

ComparedEntries == {Entry(n, d) : n \in ComparedNames, d \in BOOLEAN}

ComparedLists ==
    {s \in UNION {[1..n -> ComparedEntries] : n \in 0..MaxEntries} :
        \A i, j \in 1..Len(s) : i # j => s[i].name # s[j].name}

InitCompare ==
    /\ persisted = <<>>
    /\ config = persisted
    /\ defaultFoldersFirst \in BOOLEAN
    /\ op = NoOp
    /\ ret = <<>>
    /\ \E items \in ComparedLists :
           listing = [NoListing EXCEPT !.folderPath = ListedFolder, !.items = items]
    /\ match = NoMatch

NextCompare == applyCustomOrder

SpecCompare == InitCompare /\ [][NextCompare]_vars

-----------------------------------------------------------------------------
(* The findIndex predicate on its own: any name and any token over small      *)
(* alphabets that hold the characters the conversion to a RegExp treats       *)
(* differently.                                                               *)

NameChars == {"a", ".", "(", ")"}

TokenChars == {"a", ".", "*", "(", ")"}

RECURSIVE StringsOfLength(_, _)
StringsOfLength(chars, n) ==
    IF n = 0 THEN {""}
    ELSE {s \o c : s \in StringsOfLength(chars, n - 1), c \in chars}

StringsUpTo(chars, n) == UNION {StringsOfLength(chars, k) : k \in 1..n}

InitMatch ==
    /\ persisted = <<>>
    /\ config = <<>>
    /\ defaultFoldersFirst = TRUE
    /\ op = NoOp
    /\ ret = <<>>
    /\ listing = NoListing
    /\ \E f \in StringsUpTo(NameChars, MaxNameLen),
          t \in StringsUpTo(TokenChars, MaxTokenLen) :
           match = [NoMatch EXCEPT !.fileName = f, !.orderName = t]

\* One call of the predicate: it answers or it throws.
testToken ==
    /\ ~match.done
    /\ match' = [match EXCEPT
                    !.threw = tokenThrows(match.orderName),
                    !.matched = /\ ~tokenThrows(match.orderName)
                                /\ tokenMatches(match.fileName, match.orderName),
                    !.done = TRUE]
    /\ UNCHANGED <<persisted, config, defaultFoldersFirst, op, ret, listing>>

NextMatch == testToken

SpecMatch == InitMatch /\ [][NextMatch]_vars

-----------------------------------------------------------------------------
(* getOrderForFolder on its own: one rule as the settings may hold it, of any *)
(* kind, with or without patterns and template name, under a short or a full *)
(* key.                                                                       *)

StoredKeys == {"src", "/a/src"}

StoredOrders == {<<>>, <<"a">>, <<"b", "a">>}

StoredKinds == {"manual", "pattern", "template"}

StoredPatterns == {<<>>, <<"*.js">>}

StoredTemplates == {"", "Vue Project"}

InitLookup ==
    /\ \E k \in StoredKeys, o \in StoredOrders, t \in StoredKinds,
          ps \in StoredPatterns, tn \in StoredTemplates :
           persisted = <<Rule(k, o, t, ps, tn)>>
    /\ config = persisted
    /\ defaultFoldersFirst = TRUE
    /\ op = NoOp
    /\ ret = <<>>
    /\ listing = NoListing
    /\ match = NoMatch

NextLookup == \E p \in LookupPaths : callGetOrderForFolder(p)

SpecLookup == InitLookup /\ [][NextLookup]_vars

-----------------------------------------------------------------------------
(* The tree view: getChildren lists one folder (filter, then order), and      *)
(* moveItemUp and moveItemDown swap an item with its neighbour in the fresh   *)
(* listing and store the names of the whole listing as the folder's order.    *)
(* listing.items is what readdirSync answers for listing.folderPath.          *)

workspaceRoot == "/a"

allowedHidden ==
    <<".vscode", ".env", ".gitignore", ".gitattributes", ".prettierrc", ".eslintrc">>

buildFolders == <<"dist", "build", "out", ".next", ".nuxt">>

\* Fault injection: the allow list compared to the whole name.
isAllowedHiddenByName(name) == includes(allowedHidden, name)

\* allowedHidden.some(allowed => entry.name.startsWith(allowed))
isAllowedHidden(name) ==
    \E i \in 1..Len(allowedHidden) : startsWith(name, allowedHidden[i])

\* The predicate of entries.filter(...), its three tests in the code's order.
isShown(name, folderPath, rules) ==
    IF startsWith(name, ".")
    THEN isAllowedHidden(name)
    ELSE IF name = "node_modules" /\ folderPath = workspaceRoot
    THEN includes(getOrderForFolder(rules, folderPath), "node_modules")
    ELSE IF includes(buildFolders, name)
    THEN includes(getOrderForFolder(rules, folderPath), name)
    ELSE TRUE

filterEntries(entries, folderPath, rules) ==
    SelectSeq(entries, LAMBDA entry : isShown(entry.name, folderPath, rules))

\* Fault injection: every folder read as if it existed and could be read.
isListableWhatever(access) == TRUE

\* fs.existsSync(folderPath) answers true and fs.readdirSync does not throw.
isListable(access) == access = "ok"

\* getFilesAndFolders: nothing for a folder that is missing or cannot be read,
\* else the filtered entries in custom order; the catch turns a throw of
\* readdirSync or of applyCustomOrder into the empty listing.
getFilesAndFolders(access, entries, folderPath, rules, foldersFirst) ==
    LET r == orderItems(filterEntries(entries, folderPath, rules),
                        getOrderForFolder(rules, folderPath), foldersFirst)
    IN  IF ~isListable(access) \/ r.threw THEN <<>> ELSE r.result

\* siblings.findIndex(sibling => sibling.fileName === item.fileName),
\* positions counted from 1, 0 for -1
RECURSIVE siblingIndex(_, _, _)
siblingIndex(siblings, fileName, i) ==
    IF i > Len(siblings) THEN 0
    ELSE IF siblings[i].name = fileName THEN i
    ELSE siblingIndex(siblings, fileName, i + 1)

\* Fault injection: the guard of moveItemUp letting the first item through.
atTopOnlyWhenMissing(currentIndex) == currentIndex < 1

\* currentIndex <= 0, positions counted from 1
atTop(currentIndex) == currentIndex <= 1

\* currentIndex === -1 || currentIndex >= siblings.length - 1
atBottom(currentIndex, length) == currentIndex = 0 \/ currentIndex >= length

\* newOrder[k], undefined ("") outside the array
elementAt(newOrder, k) == IF k \in 1..Len(newOrder) THEN newOrder[k] ELSE ""

\* [newOrder[i], newOrder[j]] = [newOrder[j], newOrder[i]]; a position past
\* the end lengthens the array, a position before the start is no element.
swapped(newOrder, i, j) ==
    LET length == IF i > Len(newOrder) \/ j > Len(newOrder)
                  THEN (IF i > j THEN i ELSE j)
                  ELSE Len(newOrder)
    IN  [k \in 1..length |->
            IF k = i THEN elementAt(newOrder, j)
            ELSE IF k = j THEN elementAt(newOrder, i)
            ELSE elementAt(newOrder, k)]

siblingNames(siblings) == [k \in 1..Len(siblings) |-> siblings[k].name]

\* What one call of getFilesAndFolders on the listed folder leaves displayed.
listFolder(shown, rules, foldersFirst) ==
    LET customOrder == getOrderForFolder(rules, shown.folderPath)
        filteredEntries == filterEntries(shown.items, shown.folderPath, rules)
        r == orderItems(filteredEntries, customOrder, foldersFirst)
    IN  IF ~isListable(shown.access)
        THEN [shown EXCEPT !.done = TRUE]
        ELSE [shown EXCEPT !.filteredEntries = filteredEntries,
                           !.customOrder = customOrder,
                           !.picked = r.picked,
                           !.orderedItems = r.orderedItems,
                           !.sortedRemaining = r.sortedRemaining,
                           !.result = IF r.threw THEN <<>> ELSE r.result,
                           !.threw = r.threw,
                           !.done = TRUE]

\* The tree view asking for the children of the listed folder for the first time.
getChildren ==
    /\ ~listing.done
    /\ listing' = listFolder(listing, config, defaultFoldersFirst)
    /\ UNCHANGED <<persisted, config, defaultFoldersFirst, op, ret, match>>

\* moveItemUp and moveItemDown differ in the guard and in the neighbour.
\* A move that goes through writes and then refreshes the provider, which
\* reloads the snapshot and fires onDidChangeTreeData, on which the view lists
\* the folder again.
moveItem(name, parentPath, fileName, blocked, currentIndex, neighbour, siblings) ==
    IF parentPath = "" \/ blocked
    THEN /\ op' = [NoOp EXCEPT !.name = name, !.folderPath = parentPath,
                               !.itemName = fileName]
         /\ ret' = <<>>
         /\ UNCHANGED <<persisted, config, defaultFoldersFirst, listing, match>>
    ELSE LET newOrder == swapped(siblingNames(siblings), currentIndex, neighbour)
             rules == rulesAfterSet(config, parentPath, newOrder, "manual", <<>>)
         IN  /\ Len(rules) <= MaxRules
             /\ persisted' = rules
             /\ config' = rules
             /\ op' = [NoOp EXCEPT !.name = name, !.folderPath = parentPath,
                                   !.itemName = fileName, !.order = newOrder,
                                   !.wrote = TRUE, !.updates = 1,
                                   !.refreshed = TRUE]
             /\ ret' = <<>>
             /\ listing' = listFolder(listing, rules, defaultFoldersFirst)
             /\ UNCHANGED <<defaultFoldersFirst, match>>

moveItemUp(parentPath, fileName) ==
    LET siblings == getFilesAndFolders(listing.access, listing.items, parentPath,
                                       config, defaultFoldersFirst)
        currentIndex == siblingIndex(siblings, fileName, 1)
    IN  moveItem("moveItemUp", parentPath, fileName, atTop(currentIndex),
                 currentIndex, currentIndex - 1, siblings)

moveItemDown(parentPath, fileName) ==
    LET siblings == getFilesAndFolders(listing.access, listing.items, parentPath,
                                       config, defaultFoldersFirst)
        currentIndex == siblingIndex(siblings, fileName, 1)
    IN  moveItem("moveItemDown", parentPath, fileName,
                 atBottom(currentIndex, Len(siblings)),
                 currentIndex, currentIndex + 1, siblings)

\* The folders the tree lists: the workspace root and one folder below it.
TreeFolders == {workspaceRoot, "/a/src"}

\* The names a listed folder may hold, in the order readdirSync answers them,
\* each with whether it is a directory.
TreeEntries ==
    <<Entry(".env", FALSE), Entry(".env.local", FALSE), Entry(".git", TRUE),
      Entry(".next", TRUE), Entry("a", FALSE), Entry("b", FALSE),
      Entry("dist", TRUE), Entry("node_modules", TRUE)>>

TreeNames == {TreeEntries[i].name : i \in 1..Len(TreeEntries)}

\* The directories of up to MaxEntries of these entries.
TreeDirectories ==
    {SelectSeq(TreeEntries, LAMBDA entry : entry.name \in chosen) :
        chosen \in {c \in SUBSET TreeNames : Cardinality(c) <= MaxEntries}}

\* The RuleSets stored before the first move: none, or one rule under the
\* canonical name of /a/src, under the path of the workspace root, or under a
\* key typed into the configuration panel; one order holds a token the
\* conversion to a RegExp throws on.
TreeRuleSets ==
    {<<>>,
     <<Rule("src", <<"b", "a">>, "manual", <<>>, "")>>,
     <<Rule("src", <<"dist", ".next">>, "manual", <<>>, "")>>,
     <<Rule(workspaceRoot, <<"node_modules", "dist">>, "manual", <<>>, "")>>,
     <<Rule("rc", <<"b", "a">>, "manual", <<>>, "")>>,
     <<Rule("src", <<"*(">>, "manual", <<>>, "")>>}

InitTree ==
    /\ persisted \in TreeRuleSets
    /\ config = persisted
    /\ defaultFoldersFirst \in BOOLEAN
    /\ op = NoOp
    /\ ret = <<>>
    /\ \E f \in TreeFolders, items \in TreeDirectories :
           listing = [NoListing EXCEPT !.folderPath = f, !.items = items]
    /\ match = NoMatch

\* The user moves an entry of a folder the view has listed; the entry's item
\* carries the folder as its parentPath, or none.
NextTree ==
    \/ getChildren
    \/ \E p \in {listing.folderPath, ""}, i \in 1..Len(listing.items) :
           /\ listing.done
           /\ moveItemUp(p, listing.items[i].name)
    \/ \E p \in {listing.folderPath, ""}, i \in 1..Len(listing.items) :
           /\ listing.done
           /\ moveItemDown(p, listing.items[i].name)

SpecTree == InitTree /\ [][NextTree]_vars

-----------------------------------------------------------------------------
(* The tree view on a folder that may be gone or unreadable: a missing folder *)
(* has no entries, an unreadable one has entries readdirSync does not answer. *)

ReadEntries == <<Entry(".env", FALSE), Entry("a", FALSE), Entry("b", FALSE)>>

ReadDirectories ==
    {SelectSeq(ReadEntries, LAMBDA entry : entry.name \in chosen) :
        chosen \in SUBSET {ReadEntries[i].name : i \in 1..Len(ReadEntries)}}

InitRead ==
    /\ persisted \in TreeRuleSets
    /\ config = persisted
    /\ defaultFoldersFirst \in BOOLEAN
    /\ op = NoOp
    /\ ret = <<>>
    /\ \E f \in TreeFolders, items \in ReadDirectories,
          access \in {"ok", "missing", "unreadable"} :
           /\ access = "missing" => items = <<>>
           /\ listing = [NoListing EXCEPT !.folderPath = f, !.access = access,
                                          !.items = items]
    /\ match = NoMatch

NextRead == NextTree

SpecRead == InitRead /\ [][NextRead]_vars

-----------------------------------------------------------------------------
(* The tree view kept in step with the settings. A write to the settings      *)
(* raises a configuration change event, on which configWatcher refreshes the  *)
(* provider; while config differs from persisted that event has not been      *)
(* handled yet. A refresh fires onDidChangeTreeData, after which the view     *)
(* lists the folder again. deleteItems and pasteInto take several items and   *)
(* update the order once per item.                                            *)

\* Fault injection: the snapshot an update leaves to the next one is the one
\* it read.
snapshotKeptAcrossAwait(snapshot, stored, reloads) == snapshot

\* The snapshot when an awaited update resumes: the stored rules when the
\* configuration watcher's refresh ran during the await, else as it was.
snapshotAfterAwait(snapshot, stored, reloads) ==
    IF reloads THEN stored ELSE snapshot

\* for (const item of items) { await fs.delete(...); await updateOrderOnDelete(...) }
\* from item k on; the file operation on item failedAt throws.
RECURSIVE deleteLoop(_, _, _, _, _, _)
deleteLoop(run, parentPath, fileNames, k, failedAt, reloads) ==
    IF k > Len(fileNames) THEN run
    ELSE IF k = failedAt THEN [run EXCEPT !.threw = TRUE]
    ELSE LET order == getOrderForFolder(run.snapshot, parentPath)
             rules == rulesAfterSet(run.snapshot, parentPath,
                                    orderOnDelete(order, fileNames[k]),
                                    "manual", <<>>)
         IN  IF Len(order) > 0
             THEN deleteLoop([run EXCEPT !.stored = rules,
                                         !.snapshot = snapshotAfterAwait(@, rules, reloads),
                                         !.updates = @ + 1],
                             parentPath, fileNames, k + 1, failedAt, reloads)
             ELSE deleteLoop(run, parentPath, fileNames, k + 1, failedAt, reloads)

\* for (const src of this.clipboard.uris) { ... await fs.copy(...); await updateOrderOnCreate(...) }
RECURSIVE pasteLoop(_, _, _, _, _, _)
pasteLoop(run, destFolder, destNames, k, failedAt, reloads) ==
    IF k > Len(destNames) THEN run
    ELSE IF k = failedAt THEN [run EXCEPT !.threw = TRUE]
    ELSE LET order == getOrderForFolder(run.snapshot, destFolder)
             rules == rulesAfterSet(run.snapshot, destFolder,
                                    orderOnCreate(order, destNames[k]),
                                    "manual", <<>>)
         IN  pasteLoop([run EXCEPT !.stored = rules,
                                   !.snapshot = snapshotAfterAwait(@, rules, reloads),
                                   !.updates = @ + 1],
                       destFolder, destNames, k + 1, failedAt, reloads)

\* What a handler with such a loop leaves: the loop's writes, then refresh
\* unless the catch was entered. A refresh, the handler's or the watcher's
\* during an await, makes the view list again.
afterLoop(name, folderPath, names, run, reloads) ==
    /\ persisted' = run.stored
    /\ config' = IF run.threw THEN run.snapshot ELSE run.stored
    /\ op' = [NoOp EXCEPT !.name = name, !.folderPath = folderPath,
                          !.names = names, !.wrote = (run.updates > 0),
                          !.updates = run.updates, !.refreshed = ~run.threw,
                          !.caught = run.threw,
                          !.reloaded = (reloads /\ run.updates > 0)]
    /\ ret' = <<>>
    /\ listing' = IF ~run.threw \/ (reloads /\ run.updates > 0)
                  THEN [listing EXCEPT !.done = FALSE]
                  ELSE listing
    /\ UNCHANGED <<defaultFoldersFirst, match>>

startOfLoop == [snapshot |-> config, stored |-> persisted, updates |-> 0, threw |-> FALSE]

\* deleteItems with the items of one folder selected and the dialog confirmed.
deleteSelection(parentPath, fileNames, failedAt, reloads) ==
    LET run == deleteLoop(startOfLoop, parentPath, fileNames, 1, failedAt, reloads)
    IN  /\ Len(run.stored) <= MaxRules
        /\ afterLoop("deleteItems", parentPath, fileNames, run, reloads)

\* pasteInto with copied items on the clipboard, under names free in destFolder.
pasteInto(destFolder, destNames, failedAt, reloads) ==
    LET run == pasteLoop(startOfLoop, destFolder, destNames, 1, failedAt, reloads)
    IN  /\ Len(run.stored) <= MaxRules
        /\ \A i \in 1..Len(run.stored) : Len(run.stored[i].order) <= MaxOrderLen
        /\ afterLoop("pasteInto", destFolder, destNames, run, reloads)

\* Fault injection: a watcher that fires onDidChangeTreeData without
\* reloading the snapshot.
watcherFiresOnly(name) ==
    /\ listing' = [listing EXCEPT !.done = FALSE]
    /\ op' = [NoOp EXCEPT !.name = name, !.refreshed = TRUE]
    /\ ret' = <<>>
    /\ UNCHANGED <<persisted, config, defaultFoldersFirst, match>>

\* provider.refresh() from a watcher
watcherRefresh(name) ==
    /\ config' = persisted
    /\ listing' = [listing EXCEPT !.done = FALSE]
    /\ op' = [NoOp EXCEPT !.name = name, !.refreshed = TRUE]
    /\ ret' = <<>>
    /\ UNCHANGED <<persisted, defaultFoldersFirst, match>>

\* onDidChangeConfiguration, for a change of the settings not handled yet
configWatcher ==
    /\ config # persisted
    /\ watcherRefresh("configWatcher")

\* onDidCreate, onDidDelete, onDidChange of the file system watcher
fileWatcher == watcherRefresh("fileWatcher")

SyncFolder == "/a/src"

SyncEntries == <<Entry("a", FALSE), Entry("b", FALSE)>>

\* The RuleSets the settings hold at activation: none, a rule the tree view
\* wrote for a folder named src, and rules added in the configuration panel
\* under the relative name rc, the second with an items field of "," (of
\* which split, trim and filter leave no token).
SyncRuleSets ==
    {<<>>,
     <<Rule("src", <<"a", "b">>, "manual", <<>>, "")>>,
     <<Rule("rc", <<"a", "b">>, "manual", <<>>, "")>>,
     <<Rule("rc", <<>>, "manual", <<>>, "")>>}

\* The items selected for deletion, and the names pasted.
DeletedNames == {<<"a">>, <<"a", "b">>}

PastedNames == {<<"c">>, <<"c", "d">>}

InitSync ==
    /\ persisted \in SyncRuleSets
    /\ config = persisted
    /\ defaultFoldersFirst = TRUE
    /\ op = NoOp
    /\ ret = <<>>
    /\ listing = [NoListing EXCEPT !.folderPath = SyncFolder, !.items = SyncEntries]
    /\ match = NoMatch

NextSync ==
    \/ getChildren
    \/ \E o \in SetOrders : setOrderForFolder(SyncFolder, o)
    \/ configWatcher
    \/ fileWatcher
    \/ \E names \in DeletedNames, failedAt \in 0..2, reloads \in BOOLEAN :
           deleteSelection(SyncFolder, names, failedAt, reloads)
    \/ \E names \in PastedNames, failedAt \in 0..2, reloads \in BOOLEAN :
           pasteInto(SyncFolder, names, failedAt, reloads)

SpecSync == InitSync /\ [][NextSync]_vars

\* The host delivers every configuration change event.
SpecSyncLive == SpecSync /\ WF_vars(configWatcher)

-----------------------------------------------------------------------------
(* Properties of the ordering engine, stated on a finished call of           *)
(* applyCustomOrder (SpecOrder) or of the findIndex predicate (SpecMatch).   *)

namesOf(entries) == [i \in 1..Len(entries) |-> entries[i].name]

entrySet(entries) == {entries[i] : i \in 1..Len(entries)}

isTaken(name) == name # ""

\* Entry a stands before entry b under the default rule: a directory before a
\* file when folders-first is on, otherwise the smaller name first.
defaultBefore(a, b, foldersFirst) ==
    IF foldersFirst /\ a.isDirectory # b.isDirectory
    THEN a.isDirectory
    ELSE localeCompare(a.name, b.name) < 0

inDefaultOrder(entries, foldersFirst) ==
    \A i, j \in 1..Len(entries) :
        i < j => defaultBefore(entries[i], entries[j], foldersFirst)

\* A sequence without its repeated elements, first occurrences kept.
RECURSIVE firstOccurrences(_)
firstOccurrences(seq) ==
    IF Len(seq) = 0 THEN <<>>
    ELSE LET front == firstOccurrences(SubSeq(seq, 1, Len(seq) - 1))
         IN  IF includes(front, seq[Len(seq)]) THEN front
             ELSE Append(front, seq[Len(seq)])

\* The output of a call with a non-empty custom order: the consumed entries in
\* token order, then every other entry in default order, and, when every token
\* is an exact name of the listing, a beginning that is those entries in token
\* order.
orderedThenSortedRemainder ==
    LET out == listing.result
        consumed == listing.orderedItems
        n == Len(consumed)
        rest == SubSeq(out, n + 1, Len(out))
        order == listing.customOrder
        exactAndPresent ==
            \A t \in 1..Len(order) :
                /\ ~includesChar(order[t], "*")
                /\ \E i \in 1..Len(listing.items) : listing.items[i].name = order[t]
    IN  /\ Len(out) = Len(listing.items)
        /\ SubSeq(out, 1, n) = consumed
        /\ namesOf(consumed) = SelectSeq(listing.picked, isTaken)
        /\ entrySet(rest) = entrySet(listing.items) \ entrySet(consumed)
        /\ inDefaultOrder(rest, defaultFoldersFirst)
        /\ exactAndPresent =>
               namesOf(SubSeq(out, 1, Len(firstOccurrences(order))))
                   = firstOccurrences(order)

\* C1: for every entry list and every non-empty custom order applyCustomOrder
\* returns the entries consumed by the tokens, in token order, followed by all
\* other entries in default order; with only exact names of present entries as
\* tokens the output begins with exactly those entries in token order.
C1_TokensThenSortedRemainder ==
    (listing.done /\ listing.customOrder # <<>>) =>
        /\ ~listing.threw
        /\ orderedThenSortedRemainder

\* Whenever the call returns, its output has the shape C1 states: the only
\* calls that fall short of C1 are those that throw.
ReturnedOutputIsOrderedThenSorted ==
    (listing.done /\ listing.customOrder # <<>> /\ ~listing.threw) =>
        orderedThenSortedRemainder

\* C2: with an empty custom order the output holds the listed entries, and
\* with folders-first on every directory precedes every file and entries of
\* the same type ascend by name; with folders-first off all entries ascend by
\* name whatever their type.
C2_EmptyOrderDefaultSort ==
    (listing.done /\ listing.customOrder = <<>>) =>
        LET out == listing.result
        IN  /\ ~listing.threw
            /\ Len(out) = Len(listing.items)
            /\ entrySet(out) = entrySet(listing.items)
            /\ \A i, j \in 1..Len(out) :
                   i < j =>
                       IF defaultFoldersFirst
                       THEN /\ ~(~out[i].isDirectory /\ out[j].isDirectory)
                            /\ out[i].isDirectory = out[j].isDirectory
                                   => localeCompare(out[i].name, out[j].name) < 0
                       ELSE localeCompare(out[i].name, out[j].name) < 0

\* A listing of MaxEntries entries that the sort rearranged and in which
\* folders-first put a directory before a file of a smaller name.
C2_Witness ==
    /\ listing.done
    /\ listing.customOrder = <<>>
    /\ defaultFoldersFirst
    /\ Len(listing.result) = MaxEntries
    /\ \E i, j \in 1..Len(listing.result) :
           /\ i < j
           /\ listing.result[i].isDirectory
           /\ ~listing.result[j].isDirectory
           /\ localeCompare(listing.result[j].name, listing.result[i].name) < 0
    /\ listing.result # listing.items

\* C7: the tokens are visited left to right and each visited token takes the
\* first entry in listing order that it matches among those no earlier token
\* took, or nothing when there is none; so no token takes more than one entry,
\* a taken entry is not offered again, and k tokens take at most k entries.
C7_GreedyOnePerOccurrence ==
    (listing.done /\ listing.customOrder # <<>>) =>
        LET items == listing.items
            order == listing.customOrder
            picked == listing.picked
            takenBefore(t) == {picked[u] : u \in 1..(t - 1)} \ {""}
            candidates(t) ==
                {i \in 1..Len(items) :
                    /\ items[i].name \notin takenBefore(t)
                    /\ tokenMatches(items[i].name, order[t])}
            first(S) == CHOOSE i \in S : \A k \in S : i <= k
        IN  /\ Len(picked) <= Len(order)
            /\ ~listing.threw => Len(picked) = Len(order)
            /\ \A t \in 1..Len(picked) :
                   picked[t] = IF candidates(t) = {} THEN ""
                               ELSE items[first(candidates(t))].name
            /\ namesOf(listing.orderedItems) = SelectSeq(picked, isTaken)
            /\ Len(listing.orderedItems) <= Len(order)

\* Starvation: a wildcard took the entry a later exact token names, and that
\* token took nothing.
C7_Witness ==
    /\ listing.done
    /\ ~listing.threw
    /\ Len(listing.picked) = Len(listing.customOrder)
    /\ \E t1, t2 \in 1..Len(listing.customOrder) :
           /\ t1 < t2
           /\ includesChar(listing.customOrder[t1], "*")
           /\ ~includesChar(listing.customOrder[t2], "*")
           /\ listing.picked[t1] = listing.customOrder[t2]
           /\ listing.picked[t2] = ""
    /\ Len(listing.items) = MaxEntries

\* The token read as a glob: '*' stands for any run of characters, every other
\* character, '.' included, for itself.
RECURSIVE globMatchesFrom(_, _, _, _)
globMatchesFrom(token, i, name, j) ==
    IF i > Len(token) THEN j > Len(name)
    ELSE IF Char(token, i) = "*"
         THEN \E k \in j..(Len(name) + 1) : globMatchesFrom(token, i + 1, name, k)
    ELSE /\ j <= Len(name)
         /\ Char(name, j) = Char(token, i)
         /\ globMatchesFrom(token, i + 1, name, j + 1)

\* C8: a token with a '*' matches a name exactly when the whole name matches
\* the token with each '*' standing for any, possibly empty, run of characters
\* and each '.' for a literal dot; a token without '*' matches only the
\* identical name.
C8_WildcardMatching ==
    match.done =>
        /\ ~match.threw
        /\ match.matched = globMatchesFrom(match.orderName, 1, match.fileName, 1)

\* On tokens that hold no parenthesis the predicate never throws and agrees
\* with the glob reading: C8 falls short only on characters the conversion to
\* a RegExp leaves unescaped.
WildcardMatchingWithoutGroups ==
    (match.done /\ ~includesChar(match.orderName, "(")
                /\ ~includesChar(match.orderName, ")")) =>
        /\ ~match.threw
        /\ match.matched = globMatchesFrom(match.orderName, 1, match.fileName, 1)

-----------------------------------------------------------------------------
(* Properties of the rule store. A handler writes to the settings, so what a *)
(* later lookup sees, once the snapshot is taken again, is computed from     *)
(* persisted.                                                                *)

\* The item stands before the token under the default rule of restore: a
\* directory before a file when folders-first is on, otherwise, and within one
\* type, the name that is smaller with case ignored.
restorePrecedes(itemName, token, dirs, foldersFirst) ==
    IF foldersFirst /\ (itemName \in dirs) # (token \in dirs)
    THEN itemName \in dirs
    ELSE stringLess(toLowerCase(itemName), toLowerCase(token))

\* C6: restoreItemToDefault on a folder with a stored rule writes the old
\* order with the item removed and put back once, immediately before the
\* first remaining token it precedes under the default rule, or at the end
\* when it precedes none; the other tokens keep their relative order.
C6_RestorePlacement ==
    (op.name = "restoreItemToDefault" /\ op.wrote) =>
        LET key == restoreKey(config, op.folderPath)
            old == ruleAt(config, key).order
            new == ruleAt(persisted, key).order
            isOther(name) == name # op.itemName
            rest == SelectSeq(old, isOther)
            preceded == {i \in 1..Len(rest) :
                            restorePrecedes(op.itemName, rest[i], op.dirs,
                                            defaultFoldersFirst)}
            pos == IF preceded = {} THEN Len(rest) + 1
                   ELSE CHOOSE i \in preceded : \A k \in preceded : i <= k
        IN  /\ Len(new) = Len(rest) + 1
            /\ new[pos] = op.itemName
            /\ \A i \in 1..Len(rest) : new[IF i < pos THEN i ELSE i + 1] = rest[i]
            /\ Cardinality({i \in 1..Len(new) : new[i] = op.itemName}) = 1

\* The item stood first, is all files like the rest, and goes between two
\* tokens: after "a", before "z.txt", its capital letter notwithstanding.
C6_Witness ==
    /\ op.name = "restoreItemToDefault"
    /\ op.wrote
    /\ op.itemName = "B"
    /\ op.dirs = {}
    /\ defaultFoldersFirst
    /\ ruleAt(config, "src").order = <<"B", "a", "z.txt">>
    /\ ruleAt(persisted, "src").order = <<"a", "B", "z.txt">>

\* C3: after setOrderForFolder(p, order) on a path whose base name is one of
\* the canonical names, getOrderForFolder(q) returns order for every path q
\* with the same base name.
C3_BasenameGeneralization ==
    (op.name = "setOrderForFolder" /\ lastSegment(op.folderPath) \in canonicalNames) =>
        \A q \in LookupPaths :
            lastSegment(q) = lastSegment(op.folderPath) =>
                getOrderForFolder(persisted, q) = op.order

\* C4: after resetOrderForFolder(p), getOrderForFolder(p) returns the empty
\* sequence, and a second resetOrderForFolder(p) changes nothing.
C4_ResetThenGetIsEmpty ==
    op.name = "resetOrderForFolder" =>
        /\ getOrderForFolder(persisted, op.folderPath) = <<>>
        /\ rulesAfterReset(persisted, op.folderPath) = persisted

templateNamed(name) ==
    PROJECT_TEMPLATES[CHOOSE t \in 1..Len(PROJECT_TEMPLATES) :
                          PROJECT_TEMPLATES[t].name = name]

templateKeys(template) ==
    {template.rules[i].key : i \in 1..Len(template.rules)}

\* C5: applyTemplate(T) leaves the keys of the RuleSet united with the keys of
\* T; every key of T holds T's order, kind 'template' and T's name, every
\* other key its rule unchanged; on an empty RuleSet the keys are exactly T's.
C5_TemplateMerge ==
    op.name = "applyTemplate" =>
        LET T == templateNamed(op.template)
        IN  /\ keySet(persisted) = keySet(config) \cup templateKeys(T)
            /\ \A i \in 1..Len(T.rules) :
                   LET rule == ruleAt(persisted, T.rules[i].key)
                   IN  /\ rule.order = T.rules[i].order
                       /\ rule.type = "template"
                       /\ rule.template = T.name
            /\ \A k \in keySet(config) \ templateKeys(T) :
                   ruleAt(persisted, k) = ruleAt(config, k)
            /\ config = <<>> => Len(persisted) = Cardinality(templateKeys(T))

\* What applyTemplate does keep of C5: the keys, the orders, the template's
\* name and the rules of the other keys; the kind is 'pattern' for a template
\* rule that carries patterns.
TemplateMergeButForKind ==
    op.name = "applyTemplate" =>
        LET T == templateNamed(op.template)
        IN  /\ keySet(persisted) = keySet(config) \cup templateKeys(T)
            /\ \A i \in 1..Len(T.rules) :
                   LET rule == ruleAt(persisted, T.rules[i].key)
                   IN  /\ rule.order = T.rules[i].order
                       /\ rule.type = IF T.rules[i].patterns # <<>>
                                      THEN "pattern" ELSE "template"
                       /\ rule.template = T.name
            /\ \A k \in keySet(config) \ templateKeys(T) :
                   ruleAt(persisted, k) = ruleAt(config, k)

\* The order a lookup hands out for a rule.
usedOrder(rule) ==
    IF rule.type = "pattern" /\ rule.patterns # <<>> THEN <<>> ELSE rule.order

isAbsolutePath(key) ==
    \/ startsWith(key, "/")
    \/ startsWith(key, "\\")
    \/ Len(key) >= 2 /\ Char(key, 2) = ":"

allTemplateKeys ==
    UNION {templateKeys(PROJECT_TEMPLATES[t]) : t \in 1..Len(PROJECT_TEMPLATES)}

\* C10 as stated: every key of a reachable RuleSet is an absolute folder path
\* or one of the canonical short names.
C10_KeysAbsoluteOrCanonical ==
    \A k \in keySet(persisted) : isAbsolutePath(k) \/ k \in canonicalNames

\* C10: every key of a reachable RuleSet is one of the canonical short names,
\* a key of a built-in template, or a folder path exactly as it was handed to
\* setOrderForFolder, whose base name is not canonical.
C10_KeyInvariant ==
    \A k \in keySet(persisted) :
        \/ k \in canonicalNames
        \/ k \in allTemplateKeys
        \/ k \in FolderPaths /\ folderNameOrPath(k) \notin canonicalNames

\* A RuleSet that holds a template's "." beside a canonical name.
C10_Witness ==
    /\ "." \in keySet(persisted)
    /\ "src" \in keySet(persisted)
    /\ op.name = "applyTemplate"

-----------------------------------------------------------------------------
(* Frame effects of the rule store's handlers. The RuleSet a handler changes *)
(* is the one it read, config; what it leaves is persisted.                  *)

\* The key setOrderForFolder is to write for a path: the base name when it is
\* one of the canonical names, the path otherwise.
expectedKey(folderPath) ==
    IF lastSegment(folderPath) \in canonicalNames
    THEN lastSegment(folderPath)
    ELSE folderPath

othersUnchanged(before, after, keys) ==
    \A k \in keySet(before) \ keys :
        /\ hasKey(after, k)
        /\ ruleAt(after, k) = ruleAt(before, k)

noKeyTwice(rules) == Cardinality(keySet(rules)) = Len(rules)

SetKinds == {"manual", "pattern"}

SetPatterns == {<<>>, <<"*.js">>}

\* C11: setOrderForFolder(p, order, kind) writes exactly one key, the base
\* name of p when it is canonical and p otherwise; the rule under that key
\* becomes the order, the kind and the patterns given, and the rule of every
\* other key is unchanged.
C11_SetWritesOneKey ==
    op.name = "setOrderForFolder" =>
        LET k == expectedKey(op.folderPath)
        IN  /\ keySet(persisted) = keySet(config) \cup {k}
            /\ noKeyTwice(persisted)
            /\ ruleAt(persisted, k) = Rule(k, op.order, "manual", <<>>, "")
            /\ othersUnchanged(config, persisted, {k})
            /\ \A type \in SetKinds, patterns \in SetPatterns :
                   LET after == rulesAfterSet(config, op.folderPath, op.order,
                                              type, patterns)
                   IN  /\ keySet(after) = keySet(config) \cup {k}
                       /\ ruleAt(after, k) = Rule(k, op.order, type, patterns, "")
                       /\ othersUnchanged(config, after, {k})

\* A set on a folder named src that replaces the rule under src beside
\* another key.
C11_Witness ==
    /\ op.name = "setOrderForFolder"
    /\ op.folderPath = "/a/src"
    /\ Len(config) = 2
    /\ hasKey(config, "src")
    /\ ruleAt(config, "src").order # op.order
    /\ ruleAt(persisted, "src").order = op.order
    /\ Len(persisted) = 2

\* C12: resetOrderForFolder(p) leaves neither the key p nor the key that is
\* the base name of p, under whichever the rule was stored, and leaves the
\* rule of every other key unchanged, the slash-normalised form of p apart,
\* which it removes too.
C12_ResetRemovesBothForms ==
    op.name = "resetOrderForFolder" =>
        LET p == op.folderPath
            removed == {p, folderNameOrPath(p), normalizeSlashes(p)}
        IN  /\ ~hasKey(persisted, p)
            /\ ~hasKey(persisted, folderNameOrPath(p))
            /\ keySet(persisted) = keySet(config) \ removed
            /\ noKeyTwice(persisted)
            /\ othersUnchanged(config, persisted, removed)

\* A reset by full path that removed the rule stored under the base name and
\* kept the other key.
C12_Witness ==
    /\ op.name = "resetOrderForFolder"
    /\ op.folderPath = "/a/src"
    /\ Len(config) = 2
    /\ hasKey(config, "src")
    /\ Len(persisted) = 1
    /\ ~hasKey(persisted, "src")

\* rules with the order of the rule at position i replaced.
withOrderAt(rules, i, order) ==
    [rules EXCEPT ![i] = [rules[i] EXCEPT !.order = order]]

\* C13: restoreItemToDefault changes at most the order of the one rule whose
\* key it resolves: the kind, patterns and template name of that rule, and
\* the rule of every other key, are as they were; when it resolves no key it
\* writes nothing and the RuleSet is unchanged.
C13_RestoreTouchesOneOrder ==
    [][op'.name = "restoreItemToDefault" =>
          LET key == restoreKey(config, op'.folderPath)
          IN  /\ op'.wrote = (key # "")
              /\ IF key = "" THEN persisted' = persisted
                 ELSE \E i \in 1..Len(config) :
                          /\ config[i].key = key
                          /\ persisted' = withOrderAt(config, i, persisted'[i].order)]_vars

\* A restore that changed the order of a template's rule for src, which kept
\* its kind and its template name, beside an untouched second key.
C13_Witness ==
    /\ op.name = "restoreItemToDefault"
    /\ op.wrote
    /\ Len(config) = 2
    /\ Len(persisted) = 2
    /\ hasKey(config, "src")
    /\ ruleAt(config, "src").type = "template"
    /\ ruleAt(persisted, "src").type = "template"
    /\ ruleAt(persisted, "src").order # ruleAt(config, "src").order

\* The RuleSet the handler that ran last leaves of the RuleSet it read: what
\* it wrote, or, when it wrote nothing, what it read.
leftByLast == IF op.wrote THEN persisted ELSE config

\* What that handler leaves when it runs again, with the same arguments, on
\* the RuleSet it left.
leftByLastTwice ==
    IF op.name = "setOrderForFolder"
    THEN rulesAfterSet(leftByLast, op.folderPath, op.order, "manual", <<>>)
    ELSE IF op.name = "resetOrderForFolder"
    THEN rulesAfterReset(leftByLast, op.folderPath)
    ELSE IF op.name = "applyTemplate"
    THEN rulesAfterApplyTemplate(leftByLast, templateNamed(op.template))
    ELSE IF op.name = "restoreItemToDefault" /\ restoreKey(leftByLast, op.folderPath) # ""
    THEN rulesAfterRestore(leftByLast, op.folderPath, op.itemName, op.dirs,
                           defaultFoldersFirst)
    ELSE leftByLast

\* C14: setOrderForFolder, resetOrderForFolder, applyTemplate and
\* restoreItemToDefault are idempotent: run a second time with the same
\* arguments and the same file system, each leaves the RuleSet the first run
\* left.
C14_MutationsIdempotent ==
    op.name \in {"setOrderForFolder", "resetOrderForFolder", "applyTemplate",
                 "restoreItemToDefault"} =>
        leftByLastTwice = leftByLast

\* A restore that moved the item within an order of more than one token.
C14_Witness ==
    /\ op.name = "restoreItemToDefault"
    /\ op.wrote
    /\ LET key == restoreKey(config, op.folderPath)
       IN  /\ Len(ruleAt(persisted, key).order) > 1
           /\ ruleAt(persisted, key).order # ruleAt(config, key).order
           /\ includes(ruleAt(config, key).order, op.itemName)

-----------------------------------------------------------------------------
(* The kind of the rule a lookup resolves. *)

\* The position of the rule getOrderForFolder resolves for a path, 0 for none.
resolvedIndex(rules, folderPath) ==
    LET exact == {i \in 1..Len(rules) : rules[i].key = folderPath}
        qualifying == {i \in 1..Len(rules) :
                          \/ rules[i].key = lastSegment(folderPath)
                          \/ endsWith(folderPath, rules[i].key)}
        first(S) == CHOOSE i \in S : \A k \in S : i <= k
    IN  IF exact # {} THEN first(exact)
        ELSE IF qualifying # {} THEN first(qualifying)
        ELSE 0

-----------------------------------------------------------------------------
(* Write failure. *)

-----------------------------------------------------------------------------
(* Properties of the tree view. listing is the folder as displayed: before a  *)
(* move it is the sibling list the handler computes, after a move that wrote  *)
(* it is the fresh listing.                                                   *)

isMove(name) == name \in {"moveItemUp", "moveItemDown"}

displayedNames(shown) == [k \in 1..Len(shown.result) |-> shown.result[k].name]

isDisplayed(shown, name) == \E k \in 1..Len(shown.result) : shown.result[k].name = name

positionOf(names, name) ==
    IF \E k \in 1..Len(names) : names[k] = name
    THEN CHOOSE k \in 1..Len(names) : names[k] = name
    ELSE 0

\* The position a move sends the item at position i to.
moveTarget(name, i) == IF name = "moveItemUp" THEN i - 1 ELSE i + 1

\* after is before with the elements at positions i and j exchanged.
exchanged(before, after, i, j) ==
    /\ Len(after) = Len(before)
    /\ after[i] = before[j]
    /\ after[j] = before[i]
    /\ \A k \in 1..Len(before) : k \notin {i, j} => after[k] = before[k]

\* C16: a move up of the item displayed at a position other than the first,
\* or a move down of the item displayed at a position other than the last,
\* leaves a fresh listing with the same entries, the item and its neighbour
\* exchanged and every other entry where it was, and leaves the folder with a
\* non-empty custom order.
C16_MoveExchangesNeighbours ==
    [][(isMove(op'.name) /\ op'.folderPath # "") =>
          LET before == displayedNames(listing)
              i == positionOf(before, op'.itemName)
              j == moveTarget(op'.name, i)
          IN  (i # 0 /\ j \in 1..Len(before)) =>
                  /\ exchanged(before, displayedNames(listing'), i, j)
                  /\ getOrderForFolder(config', op'.folderPath) # <<>>]_vars

\* The same when the lookup of the folder resolves the key the move wrote.
MoveExchangesNeighboursWhenItsKeyResolves ==
    [][(isMove(op'.name) /\ op'.folderPath # "") =>
          LET before == displayedNames(listing)
              i == positionOf(before, op'.itemName)
              j == moveTarget(op'.name, i)
              resolved == resolvedIndex(config', op'.folderPath)
          IN  (/\ i # 0
               /\ j \in 1..Len(before)
               /\ resolved # 0
               /\ config'[resolved].key = keyToUse(op'.folderPath)) =>
                  /\ exchanged(before, displayedNames(listing'), i, j)
                  /\ getOrderForFolder(config', op'.folderPath) # <<>>]_vars

\* A move that wrote, in a folder displaying three entries.
MoveWitness ==
    /\ isMove(op.name)
    /\ op.wrote
    /\ Len(listing.result) = 3
    /\ displayedNames(listing) = op.order

\* The names the build-output tests of the filter are about, for a folder.
isBuildOutput(name, folderPath) ==
    \/ name \in {"dist", "build", "out", ".next", ".nuxt"}
    \/ name = "node_modules" /\ folderPath = workspaceRoot

\* C17: an entry named dist, build, out, .next or .nuxt, in any folder, and an
\* entry named node_modules in the workspace root, is displayed exactly when
\* the folder's resolved custom order contains its name.
C17_BuildOutputShownIffOrdered ==
    listing.done =>
        \A i \in 1..Len(listing.items) :
            LET name == listing.items[i].name
            IN  isBuildOutput(name, listing.folderPath) =>
                    (isDisplayed(listing, name)
                        <=> includes(listing.customOrder, name))

\* The same for the names without a leading dot, on a listing that did not
\* throw.
VisibleBuildOutputShownIffOrdered ==
    (listing.done /\ ~listing.threw) =>
        \A i \in 1..Len(listing.items) :
            LET name == listing.items[i].name
            IN  (isBuildOutput(name, listing.folderPath) /\ ~startsWith(name, ".")) =>
                    (isDisplayed(listing, name)
                        <=> includes(listing.customOrder, name))

keptByFilter(shown, name) ==
    \E k \in 1..Len(shown.filteredEntries) : shown.filteredEntries[k].name = name

C20_BlockedMoveIsNoOp ==
    [][(isMove(op'.name) /\ op'.folderPath # "") =>
          LET siblings == displayedNames(listing)
              i == positionOf(siblings, op'.itemName)
          IN  (\/ i = 0
               \/ op'.name = "moveItemUp" /\ i = 1
               \/ op'.name = "moveItemDown" /\ i = Len(siblings)) =>
                  /\ ~op'.wrote
                  /\ op'.updates = 0
                  /\ ~op'.failed
                  /\ persisted' = persisted
                  /\ config' = config
                  /\ listing' = listing]_vars

\* A move up of the first of several displayed entries of a folder that has
\* a rule, which is still the first.
C20_Witness ==
    /\ op.name = "moveItemUp"
    /\ op.folderPath # ""
    /\ ~op.wrote
    /\ Len(listing.result) >= 2
    /\ listing.result[1].name = op.itemName
    /\ listing.customOrder # <<>>
    /\ persisted = config

-----------------------------------------------------------------------------
(* Directory read failure. *)

\* C21: listing a folder that does not exist or cannot be read answers the
\* empty listing, and neither the listing nor a move that lists such a
\* folder writes the RuleSet or fails.
C21_UnreadableFolderListsEmpty ==
    [][listing.access # "ok" =>
          /\ listing'.done => listing'.result = <<>>
          /\ persisted' = persisted
          /\ config' = config
          /\ ~op'.wrote
          /\ op'.updates = 0
          /\ ~op'.failed]_vars

\* A listed folder that holds entries and cannot be read, with a rule stored.
C21_Witness ==
    /\ listing.done
    /\ listing.access = "unreadable"
    /\ Len(listing.items) >= 2
    /\ listing.result = <<>>
    /\ persisted # <<>>
    /\ isMove(op.name)

-----------------------------------------------------------------------------
(* The default comparator, on the pairs of entries of a sorted folder. *)

sign(n) == IF n < 0 THEN -1 ELSE IF n > 0 THEN 1 ELSE 0

RECURSIVE withoutIgnorable(_)
withoutIgnorable(name) ==
    IF Len(name) = 0 THEN ""
    ELSE (IF Char(name, 1) = softHyphen THEN "" ELSE Char(name, 1))
             \o withoutIgnorable(SubSeq(name, 2, Len(name)))

\* C22 as stated: for two entries with distinct names and either setting of
\* folders-first, compare(a, b) and compare(b, a) have opposite signs and
\* neither is zero.
C22_DistinctNamesNeverCompareEqual ==
    listing.done =>
        \A i, j \in 1..Len(listing.items) :
            LET a == listing.items[i]
                b == listing.items[j]
            IN  a.name # b.name =>
                    \A foldersFirst \in BOOLEAN :
                        /\ compareItems(a, b, foldersFirst) # 0
                        /\ sign(compareItems(a, b, foldersFirst))
                               = -sign(compareItems(b, a, foldersFirst))

\* C22: compare(a, b) and compare(b, a) have opposite signs for every two
\* entries and either setting of folders-first; they are zero only for two
\* names that are the same once the characters the collation ignores are
\* left out, and then only when folders-first is off or both entries are of
\* one kind.
C22_ComparatorAntisymmetric ==
    listing.done =>
        \A i, j \in 1..Len(listing.items) :
            LET a == listing.items[i]
                b == listing.items[j]
            IN  \A foldersFirst \in BOOLEAN :
                    /\ sign(compareItems(a, b, foldersFirst))
                           = -sign(compareItems(b, a, foldersFirst))
                    /\ compareItems(a, b, foldersFirst) = 0 <=>
                           /\ withoutIgnorable(a.name) = withoutIgnorable(b.name)
                           /\ foldersFirst => a.isDirectory = b.isDirectory

\* A sorted folder holding a, A, and a followed by a soft hyphen: a and A are
\* ordered by case, the third name stays where the directory had it.
C22_Witness ==
    /\ listing.done
    /\ Len(listing.items) = 3
    /\ namesOf(listing.items) = <<"a" \o softHyphen, "A", "a">>
    /\ namesOf(listing.result) = <<"a" \o softHyphen, "a", "A">>

-----------------------------------------------------------------------------
(* Propagation of file operations to the RuleSet. The handler reads config;  *)
(* what it leaves is persisted.                                               *)

\* The deleted name is every token of the order the folder resolved.
removesLastTokens(order, name) ==
    /\ order # <<>>
    /\ \A i \in 1..Len(order) : order[i] = name

renamedIn(order, oldName, newName) ==
    [i \in 1..Len(order) |-> IF order[i] = oldName THEN newName ELSE order[i]]

\* C24: after renameItem in a folder whose resolved custom order is not
\* empty, the lookup of the folder returns that order with every occurrence
\* of the old name replaced by the new one and every other token where it
\* was; in a folder whose resolved custom order is empty nothing is written.
C24_RenamePropagates ==
    [][op'.name = "renameItem" =>
          LET order == getOrderForFolder(config, op'.folderPath)
          IN  IF order # <<>>
              THEN getOrderForFolder(persisted', op'.folderPath)
                       = renamedIn(order, op'.itemName, op'.newName)
              ELSE ~op'.wrote /\ persisted' = persisted]_vars

\* The same when the lookup of the folder resolves the key the rename wrote.
RenamePropagatesWhenItsKeyResolves ==
    [][op'.name = "renameItem" =>
          LET order == getOrderForFolder(config, op'.folderPath)
              resolved == resolvedIndex(persisted', op'.folderPath)
          IN  IF order # <<>>
              THEN persisted'[resolved].key = keyToUse(op'.folderPath) =>
                       getOrderForFolder(persisted', op'.folderPath)
                           = renamedIn(order, op'.itemName, op'.newName)
              ELSE ~op'.wrote /\ persisted' = persisted]_vars

\* A rename that rewrote a token of the order of its folder.
RenameWitness ==
    /\ op.name = "renameItem"
    /\ op.wrote
    /\ includes(getOrderForFolder(persisted, op.folderPath), op.newName)

-----------------------------------------------------------------------------
(* The tree view in step with the settings. *)

isWatcher(name) == name \in {"configWatcher", "fileWatcher"}

\* Every change of the settings is followed by a reload of the snapshot.
ChangeLeadsToReload == (config # persisted) ~> (config = persisted)

\* The step is the view listing the folder, which leaves op as it was.
viewLists == ~listing.done /\ listing'.done

\* A watcher's refresh reloads the snapshot and makes the view list again.
WatcherReloadsAndFires ==
    [][(isWatcher(op'.name) /\ ~viewLists) =>
          (config' = persisted' /\ ~listing'.done)]_vars

\* The listing that follows a watcher's refresh is computed from the stored
\* rules.
ListingAfterWatcherIsCurrent ==
    [][(isWatcher(op.name) /\ viewLists) =>
          listing'.customOrder = getOrderForFolder(persisted, listing.folderPath)]_vars

\* C25 as stated: every configuration change is followed by a refresh that
\* reloads the snapshot and fires the tree-changed event, the listing after
\* it is computed from the stored rules, and every command of the tree
\* provider that wrote the RuleSet called refresh before it completed.
C25_EveryWritingCommandRefreshes ==
    /\ ChangeLeadsToReload
    /\ WatcherReloadsAndFires
    /\ ListingAfterWatcherIsCurrent
    /\ [][(op'.name \in {"deleteItems", "pasteInto"} /\ op'.wrote /\ ~viewLists) =>
             op'.refreshed]_vars

\* C25: every configuration change is followed by a refresh that reloads the
\* snapshot and fires the tree-changed event, and the listing after it is
\* computed from the stored rules; a command of the tree provider that wrote
\* the RuleSet called refresh, leaving the snapshot equal to the stored rules,
\* exactly when its catch block did not run.
C25_WatchersKeepViewInStep ==
    /\ ChangeLeadsToReload
    /\ WatcherReloadsAndFires
    /\ ListingAfterWatcherIsCurrent
    /\ [][(op'.name \in {"deleteItems", "pasteInto"} /\ op'.wrote /\ ~viewLists) =>
             /\ op'.refreshed <=> ~op'.caught
             /\ op'.refreshed => (config' = persisted' /\ ~listing'.done)]_vars

\* The configuration watcher has just reloaded rules a command wrote without
\* refreshing.
C25_Witness ==
    /\ op.name = "configWatcher"
    /\ config = persisted
    /\ persisted # <<>>
    /\ ~listing.done

\* A delete of two items that wrote for the first and failed on the second.
PartialDeleteWitness ==
    /\ op.name = "deleteItems"
    /\ op.wrote
    /\ op.caught
    /\ ~op.refreshed
    /\ config # persisted

allDeleted(rules, folderPath, names) ==
    \A k \in 1..Len(names) : ~includes(getOrderForFolder(rules, folderPath), names[k])

allPasted(rules, folderPath, names) ==
    \A k \in 1..Len(names) : includes(getOrderForFolder(rules, folderPath), names[k])

\* C26: a deleteItems call or a pasteInto call that updates the order once
\* per item leaves a RuleSet that reflects every update: none of the deleted
\* names is in the folder's order, every pasted name is.
C26_NoLostUpdate ==
    [][(~op'.caught /\ config = persisted /\ ~viewLists) =>
          /\ op'.name = "deleteItems" =>
                 allDeleted(persisted', op'.folderPath, op'.names)
          /\ op'.name = "pasteInto" =>
                 allPasted(persisted', op'.folderPath, op'.names)]_vars

\* The same for the calls during whose awaits the configuration watcher
\* refreshed (or that made one update at most), when the lookup of the folder
\* resolves the key the call wrote.
NoLostUpdateWhenReloadedAndItsKeyResolves ==
    [][(/\ ~op'.caught
        /\ config = persisted
        /\ ~viewLists
        /\ op'.reloaded \/ op'.updates <= 1
        /\ op'.wrote
        /\ persisted'[resolvedIndex(persisted', op'.folderPath)].key
               = keyToUse(op'.folderPath)) =>
          /\ op'.name = "deleteItems" =>
                 allDeleted(persisted', op'.folderPath, op'.names)
          /\ op'.name = "pasteInto" =>
                 allPasted(persisted', op'.folderPath, op'.names)]_vars

\* The same for the calls during whose awaits the configuration watcher
\* refreshed, whatever key the lookup resolves.
NoLostUpdateWhenReloaded ==
    [][(~op'.caught /\ config = persisted /\ ~viewLists /\ op'.reloaded) =>
          /\ op'.name = "deleteItems" =>
                 allDeleted(persisted', op'.folderPath, op'.names)
          /\ op'.name = "pasteInto" =>
                 allPasted(persisted', op'.folderPath, op'.names)]_vars

-----------------------------------------------------------------------------
(* Writing an order and reading it back. *)

\* C27: after setOrderForFolder(p, o) and a refresh, getOrderForFolder(p)
\* returns exactly o, whatever the RuleSet was.
C27_SetGetRoundTrip ==
    [][op'.name = "setOrderForFolder" =>
          getOrderForFolder(persisted', op'.folderPath) = op'.order]_vars

\* The same when the lookup of the folder resolves the key the call wrote.
SetGetRoundTripWhenItsKeyResolves ==
    [][op'.name = "setOrderForFolder" =>
          LET resolved == resolvedIndex(persisted', op'.folderPath)
          IN  persisted'[resolved].key = keyToUse(op'.folderPath) =>
                  getOrderForFolder(persisted', op'.folderPath) = op'.order]_vars

\* An order written for a folder named src under the key src, which the
\* lookup of the folder resolves.
SetGetWitness ==
    /\ op.name = "setOrderForFolder"
    /\ op.folderPath = "/a/src"
    /\ Len(persisted) = 2
    /\ getOrderForFolder(persisted, op.folderPath) = op.order

-----------------------------------------------------------------------------
(* The rule a restore works on and the rule a lookup resolves. *)

\* C28: whenever the lookup of a folder returns a non-empty order,
\* restoreItemToDefault for that folder rewrites the order of the rule the
\* lookup resolved, and the lookup then returns that order with the item at
\* its restored position.
C28_RestoreResolvesLookupRule ==
    [][(/\ op'.name = "restoreItemToDefault"
        /\ getOrderForFolder(config, op'.folderPath) # <<>>) =>
          LET i == resolvedIndex(config, op'.folderPath)
              restored == restoredOrder(getOrderForFolder(config, op'.folderPath),
                                        op'.itemName, op'.dirs, defaultFoldersFirst)
          IN  /\ op'.wrote
              /\ persisted' = withOrderAt(config, i, restored)
              /\ getOrderForFolder(persisted', op'.folderPath) = restored]_vars

\* The same when the key the restore finds is the key of the rule the lookup
\* resolved.
RestoreResolvesLookupRuleWhenKeysAgree ==
    [][(/\ op'.name = "restoreItemToDefault"
        /\ getOrderForFolder(config, op'.folderPath) # <<>>
        /\ config[resolvedIndex(config, op'.folderPath)].key
               = restoreKey(config, op'.folderPath)) =>
          LET i == resolvedIndex(config, op'.folderPath)
              restored == restoredOrder(getOrderForFolder(config, op'.folderPath),
                                        op'.itemName, op'.dirs, defaultFoldersFirst)
          IN  /\ op'.wrote
              /\ persisted' = withOrderAt(config, i, restored)
              /\ getOrderForFolder(persisted', op'.folderPath) = restored]_vars

\* A restore in a folder whose order the lookup resolves from a key that is
\* a suffix of its path: the restore finds no key and writes nothing.
RestoreFindsNoKeyWitness ==
    /\ op.name = "restoreItemToDefault"
    /\ ~op.wrote
    /\ getOrderForFolder(config, op.folderPath) # <<>>

\* A restore that moved the item in the order the lookup returns.
RestoreKeysAgreeWitness ==
    /\ op.name = "restoreItemToDefault"
    /\ op.wrote
    /\ getOrderForFolder(config, op.folderPath) = <<"b", "a">>
    /\ getOrderForFolder(persisted, op.folderPath) = <<"a", "b">>

-----------------------------------------------------------------------------
(* The ordering step as a rearrangement of the listing. *)

\* output holds every entry of input exactly once and nothing else.
isPermutation(output, input) ==
    /\ Len(output) = Len(input)
    /\ \A i \in 1..Len(input) :
           Cardinality({k \in 1..Len(output) : output[k] = input[i]})
               = Cardinality({k \in 1..Len(input) : input[k] = input[i]})

\* item.position = index, for the items in output order.
positionsOf(output) == [k \in 1..Len(output) |-> k - 1]

\* C29: for every entry list and every custom order the output of
\* applyCustomOrder is a permutation of the entries it was given, and the
\* positions assigned in output order are exactly 0..n-1 for n entries.
C29_OutputIsPermutation ==
    listing.done =>
        /\ ~listing.threw
        /\ isPermutation(listing.result, listing.items)
        /\ {positionsOf(listing.result)[k] : k \in 1..Len(listing.result)}
               = 0..(Len(listing.items) - 1)

\* The same for the calls that return.
ReturnedOutputIsPermutation ==
    (listing.done /\ ~listing.threw) =>
        /\ isPermutation(listing.result, listing.items)
        /\ {positionsOf(listing.result)[k] : k \in 1..Len(listing.result)}
               = 0..(Len(listing.items) - 1)

\* A returned call whose custom order repeats a token and overlaps a
\* wildcard with an exact name, over three entries.
PermutationWitness ==
    /\ listing.done
    /\ ~listing.threw
    /\ Len(listing.items) = 3
    /\ listing.customOrder = <<"*.jsx", "*.jsx">>
    /\ Len(listing.orderedItems) = 2

\* A call the token *( makes throw: the listing of the folder comes out empty.
LostListingWitness ==
    /\ listing.done
    /\ listing.threw
    /\ Len(listing.items) = 3
    /\ listing.result = <<>>

-----------------------------------------------------------------------------
(* A created entry in the order of its folder. *)

\* order without every occurrence of name, and name after it.
appendedLast(order, name) ==
    LET other(k) == order[k] # name
        kept == {k \in 1..Len(order) : other(k)}
        RECURSIVE pick(_)
        pick(k) == IF k > Len(order) THEN <<>>
                   ELSE IF k \in kept THEN <<order[k]>> \o pick(k + 1)
                   ELSE pick(k + 1)
    IN  pick(1) \o <<name>>

\* Listings of a folder that holds the created entry beside another one.
listingsWith(name) ==
    {<<Entry("A", TRUE), Entry(name, FALSE)>>,
     <<Entry(name, FALSE), Entry("A", TRUE)>>,
     <<Entry("0", FALSE), Entry(name, TRUE)>>,
     <<Entry(name, FALSE)>>}

\* The first entry of the listing of the folder that holds items is named name.
listedFirst(items, folderPath, rules, name) ==
    LET shown == getFilesAndFolders("ok", items, folderPath, rules, defaultFoldersFirst)
    IN  Len(shown) > 0 /\ shown[1].name = name

\* A paste of one item.
pastesOne ==
    /\ op'.name = "pasteInto"
    /\ Len(op'.names) = 1
    /\ op'.updates = 1
    /\ ~viewLists

\* C30: after an entry named n is pasted into a folder, the order stored for
\* the folder is the order resolved for it before with every occurrence of n
\* removed and n appended last; the write is made also when the folder had
\* no custom order: the rule then holds the single token n, the lookup of the
\* folder returns it, and a listing of the folder begins with n.
C30_CreatePropagates ==
    [][pastesOne =>
          LET order == getOrderForFolder(config, op'.folderPath)
              key == keyToUse(op'.folderPath)
              n == op'.names[1]
          IN  /\ hasKey(persisted', key)
              /\ ruleAt(persisted', key).order = appendedLast(order, n)
              /\ order = <<>> =>
                     /\ ruleAt(persisted', key).order = <<n>>
                     /\ getOrderForFolder(persisted', op'.folderPath) = <<n>>
                     /\ \A items \in listingsWith(n) :
                            listedFirst(items, op'.folderPath, persisted', n)]_vars

\* The part of C30 about the rule written.
CreatePropagatesToStoredOrder ==
    [][pastesOne =>
          LET order == getOrderForFolder(config, op'.folderPath)
              key == keyToUse(op'.folderPath)
              n == op'.names[1]
          IN  /\ hasKey(persisted', key)
              /\ ruleAt(persisted', key).order = appendedLast(order, n)
              /\ ruleAt(persisted', key).type = "manual"]_vars

\* C30 when the lookup of the folder resolves the key the paste wrote.
CreatePropagatesWhenItsKeyResolves ==
    [][(/\ pastesOne
        /\ persisted'[resolvedIndex(persisted', op'.folderPath)].key
               = keyToUse(op'.folderPath)) =>
          LET order == getOrderForFolder(config, op'.folderPath)
              key == keyToUse(op'.folderPath)
              n == op'.names[1]
          IN  /\ hasKey(persisted', key)
              /\ ruleAt(persisted', key).order = appendedLast(order, n)
              /\ order = <<>> =>
                     /\ ruleAt(persisted', key).order = <<n>>
                     /\ getOrderForFolder(persisted', op'.folderPath) = <<n>>
                     /\ \A items \in listingsWith(n) :
                            listedFirst(items, op'.folderPath, persisted', n)]_vars

\* C30 for createFile on the RuleSets the handlers of the rule store leave.
CreateFilePropagates ==
    [][op'.name = "createFile" =>
          LET order == getOrderForFolder(config, op'.folderPath)
              key == keyToUse(op'.folderPath)
              n == op'.itemName
          IN  /\ op'.wrote
              /\ hasKey(persisted', key)
              /\ ruleAt(persisted', key).order = appendedLast(order, n)
              /\ ruleAt(persisted', key).type = "manual"
              /\ order = <<>> =>
                     /\ ruleAt(persisted', key).order = <<n>>
                     /\ getOrderForFolder(persisted', op'.folderPath) = <<n>>
                     /\ \A items \in listingsWith(n) :
                            listedFirst(items, op'.folderPath, persisted', n)]_vars

\* A create in a folder without custom order, which made the rule of the
\* single token, beside the rule of another folder.
CreateFirstWitness ==
    /\ op.name = "createFile"
    /\ op.wrote
    /\ op.folderPath = "/a/mysrc"
    /\ Len(persisted) = 2
    /\ ruleAt(persisted, "/a/mysrc").order = <<op.itemName>>

\* A paste into a folder whose lookup resolves an earlier key with an empty
\* order: the rule of the single token is written and the folder stays
\* without custom order.
PasteShadowedWitness ==
    /\ op.name = "pasteInto"
    /\ op.updates = 1
    /\ ~op.caught
    /\ hasKey(persisted, "src")
    /\ ruleAt(persisted, "src").order = <<"c">>
    /\ getOrderForFolder(persisted, op.folderPath) = <<>>

====
